---- MODULE Spec2Model ----
(***************************************************************************)
(* DeAsync: an on-chain task board (contracts/DeAsync.sol) and the worker  *)
(* agent that claims tasks from it (node2-receiver/src/worker).           *)
(*                                                                         *)
(* Spec       the registry contract: every public function is one atomic   *)
(*            transaction (or call), a revert changes no contract storage. *)
(* NonceSpec  the worker's nonce allocator (_getNextNonce) called from      *)
(*            overlapping asynchronous flows of one worker process.         *)
(* TxSpec     the same flows sending transactions with the allocated nonce, *)
(*            and _refreshNonce after a nonce error.                        *)
(* PollSpec   checkForAvailableTasks run by overlapping timer callbacks     *)
(*            against the registry and a competing worker.                  *)
(* PollFairSpec  the poll loop with a timer that keeps firing and calls     *)
(*            that settle and succeed.                                      *)
(* ConflictSpec  PollFairSpec with one nonce conflict per result.           *)
(* TripleSpec three timer callbacks in progress at once, executor failures. *)
(* StartSpec  main(): initialize, startPolling, operations, restart.        *)
(* RetrySpec  attemptClaimTaskWithRetry of the retrying TaskClaimer.        *)
(* WindowSpec one callback at a time, more tasks than a poll reads.         *)
(* RoundSpec  the polling round of the retrying TaskClaimer and its ceiling.*)
(* LifeSpec   startPolling and stopPolling of one worker, and its timer.    *)
(* WaitSpec   the requester's wait for a task (_pollForTaskCompletion).     *)
(***************************************************************************)
EXTENDS Integers, Sequences, FiniteSets, TLC

\* ------------------------------------------------------------- bounds
MaxTasks == 2          \* submitTask is cut off after this many tasks
MaxReward == 1         \* msg.value of submitTask ranges over 0..MaxReward
MaxCount == 3          \* getLatestTasks(count) is called with 0..MaxCount
MaxSeed == 1           \* the chain's transaction count at start: 0..MaxSeed
MaxCalls == 3          \* _getNextNonce is called at most this many times
MaxLifeCalls == 4      \* startPolling and stopPolling are called this often
MaxBegan == 4          \* timer callbacks are counted up to this number
MaxChain == 3          \* transactions of other processes, and restarts of
                       \* the worker, stop at this count

\* ------------------------------------------------------------- values
ZeroAddress == "0x0"
Addr == {"A", "B", "R"}                 \* msg.sender of a transaction
Requesters == {"R"}                     \* the senders of submitTask
FuncTypes == {"javascript"}
Payloads == {"task1"}
Results == {"", "84"}                   \* submitResult accepts any string
TaskIds == 0 .. (MaxTasks + 1)          \* keys of the tasks mapping in use

\* revert reasons of the contract
InvalidTaskId == "Invalid task ID"
AlreadyClaimed == "Task already claimed"
AlreadyCompleted == "Task already completed"
NotAssignedWorker == "Not the assigned worker"
NoBalance == "No balance to withdraw"
TransferFailed == "transfer failed"
OK == "ok"

NULL == -1                              \* JavaScript null of nextNonce

Events == {"taskClaimed", "taskCompleted"}   \* this.emit(name, {taskId, ...})

VARIABLES
  \* --- contract storage (DeAsync.sol)
  taskCount,      \* uint public taskCount
  tasks,          \* mapping(uint => Task)
  balances,       \* mapping(address => uint)
  funds,          \* ether held by the contract (address(this).balance)
  \* --- observation of the contract's callers
  wallet,         \* ether each address has received from the contract
  last,           \* the latest call: function, sender, argument, outcome,
                  \* ether moved and value returned
  \* --- history of the registry
  claimOk,        \* per task id: number of claimTask calls that succeeded
  earned,         \* per address: tasks completed since its last withdrawal
  credited,       \* total of rewards ever added to balances
  \* --- worker process: nonce allocator (task-claimer.js)
  nextNonce,      \* this.nextNonce
  nonceLock,      \* this.nonceLock: id of the promise at the chain's tail
  resolved,       \* ids of the lock promises that are resolved
  flow,           \* per asynchronous flow: its position in _getNextNonce
  chainTxCount,   \* provider.getTransactionCount(address, 'latest')
  seed,           \* first value the counter takes (history)
  issued,         \* values returned by _getNextNonce, in order of return
  \* --- worker process: transactions (task-claimer.js)
  ops,            \* per flow: its position in the operation and its nonce
  pending,        \* nonces of this identity's transactions in flight
  pendingTransactions,  \* keys of this.pendingTransactions
  sent,           \* nonces of the transactions the node accepted, in order
  resyncDue,      \* a nonce error was returned and no resync completed since
  resynced,       \* largest count read by the resyncs completed since the
                  \* last value _getNextNonce returned
  \* --- worker process: poll loop (task-claimer.js)
  phase,          \* "new" after the constructor, "polling" after startPolling
  boot,           \* taskCount as read by initialize()
  lastProcessedTaskId,  \* this.lastProcessedTaskId
  claimedTasks,   \* keys of this.claimedTasks
  ticks,          \* per timer callback in progress: its position in
                  \* checkForAvailableTasks, its snapshot and loop index
  claimSent,      \* per task id: claim transactions the worker has sent
  resultSent,     \* per task id: submitResult transactions it has sent
  rejected,       \* ids whose claim came back "Task already claimed"
  emitted,        \* per event name and task id: calls of this.emit
  executorFailed, \* ids for which executor.executeTask threw
  conflicted,     \* ids whose submitResult was refused with a nonce error
  scanFailed,     \* a getLatestTasks call of the poll loop has thrown
  \* --- worker process: claim with retry (task-executor.js, TaskClaimer)
  rpc,            \* the await attemptClaimTaskWithRetry is suspended at
  retryTask,      \* its taskId
  attempt,        \* its loop variable
  bid,            \* gasPrice computed for the current attempt
  bids,           \* gasPrice of each claimTask call of the operation
  caught,         \* what handleClaimError returned for each caught error
  \* --- worker process: the polling timer (task-claimer.js)
  isRunning,      \* this.isRunning
  pollingTimer,   \* this.pollingTimer: the handle setInterval returned
  timers,         \* handles of the intervals set and not cleared
  lifeCalls,      \* calls of startPolling and stopPolling so far
  lifeLast,       \* what the latest of these calls did
  began,          \* timer callbacks begun so far
  \* --- requester process: the wait for a task (deasync-sdk.js)
  waitTask,       \* taskId of _pollForTaskCompletion, NULL before the call
  waitState,      \* state of the promise it returned
  waitValue,      \* the value the promise resolved with
  pollTimer,      \* the interval is set and not cleared
  elapsed,        \* Date.now() - startTime > timeout
  polls,          \* per interval callback in progress: its position
  settleCalls     \* calls of resolve and reject so far

regVars == <<taskCount, tasks, balances, funds, wallet, last,
             claimOk, earned, credited>>
nonceVars == <<nextNonce, nonceLock, resolved, flow, chainTxCount, seed, issued>>
txVars == <<ops, pending, pendingTransactions, sent, resyncDue, resynced>>
pollLog == <<emitted, executorFailed, conflicted, scanFailed>>
pollVars == <<phase, boot, lastProcessedTaskId, claimedTasks, ticks,
              claimSent, resultSent, rejected, pollLog>>
retryVars == <<rpc, retryTask, attempt, bid, bids, caught>>
lifeVars == <<isRunning, pollingTimer, timers, lifeCalls, lifeLast, began>>
waitVars == <<waitTask, waitState, waitValue, pollTimer, elapsed, polls,
              settleCalls>>
sideVars == <<lifeVars, waitVars>>
procVars == <<nonceVars, txVars, pollVars, retryVars, sideVars>>   \* the worker process
\* what the steps of one part of the worker leave alone
outsideNonce == <<txVars, pollVars, retryVars, sideVars>>
outsideTx == <<pollVars, retryVars, sideVars>>
outsidePoll == <<nonceVars, txVars, retryVars, sideVars>>
outsideRetry == <<nonceVars, txVars, phase, boot, lastProcessedTaskId, ticks,
                  claimSent, resultSent, rejected, executorFailed, conflicted,
                  scanFailed, sideVars>>
outsideLife == <<nonceVars, txVars, pollVars, retryVars, waitVars>>
outsideWait == <<nonceVars, txVars, pollVars, retryVars, lifeVars>>
vars == <<regVars, procVars>>

\* ------------------------------------------------------------- registry
\* The value of an unwritten slot of the tasks mapping.
EmptyTask ==
  [id |-> 0, requester |-> ZeroAddress, worker |-> ZeroAddress,
   funcType |-> "", data |-> "", result |-> "", completed |-> FALSE,
   reward |-> 0]

Call(op, sender, arg, status, value, ret) ==
  [op |-> op, sender |-> sender, arg |-> arg, status |-> status,
   value |-> value, ret |-> ret]

NoCall == Call("none", ZeroAddress, 0, OK, 0, <<>>)

RegInit ==
  /\ taskCount = 0
  /\ tasks = [i \in TaskIds |-> EmptyTask]
  /\ balances = [a \in Addr |-> 0]
  /\ funds = 0
  /\ wallet = [a \in Addr |-> 0]
  /\ last = NoCall
  /\ claimOk = [i \in TaskIds |-> 0]
  /\ earned = [a \in Addr |-> {}]
  /\ credited = 0

\* A faulty variant of NewTask: the id is taken before taskCount is raised.
NewTaskStaleId(sender, funcType, data, value) ==
  [id |-> taskCount, requester |-> sender, worker |-> ZeroAddress,
   funcType |-> funcType, data |-> data, result |-> "", completed |-> FALSE,
   reward |-> value]

\* The Task struct submitTask stores, built after taskCount++.
NewTask(sender, funcType, data, value) ==
  [id |-> taskCount + 1, requester |-> sender, worker |-> ZeroAddress,
   funcType |-> funcType, data |-> data, result |-> "", completed |-> FALSE,
   reward |-> value]

\* submitTask(funcType, data) payable: what the transaction does to the
\* registry.
submitTaskTx(sender, funcType, data, value) ==
  /\ taskCount' = taskCount + 1
  /\ tasks' = [tasks EXCEPT ![taskCount + 1] = NewTask(sender, funcType, data, value)]
  /\ funds' = funds + value
  /\ last' = Call("submitTask", sender, taskCount + 1, OK, value, <<>>)
  /\ UNCHANGED <<balances, wallet, claimOk, earned, credited>>

\* submitTask(funcType, data) payable
submitTask(sender, funcType, data, value) ==
  /\ taskCount < MaxTasks
  /\ submitTaskTx(sender, funcType, data, value)
  /\ UNCHANGED procVars

\* A faulty variant of ClaimStatus: the require on the worker field is missing.
ClaimStatusNoWorkerCheck(sender, taskId) ==
  IF ~(taskId <= taskCount) THEN InvalidTaskId
  ELSE IF tasks[taskId].completed THEN AlreadyCompleted
  ELSE OK

\* The require chain of claimTask: the first failing require is the revert.
ClaimStatus(sender, taskId) ==
  IF ~(taskId <= taskCount) THEN InvalidTaskId
  ELSE IF tasks[taskId].worker # ZeroAddress THEN AlreadyClaimed
  ELSE IF tasks[taskId].completed THEN AlreadyCompleted
  ELSE OK

\* claimTask(taskId): what the transaction does to the registry.
claimTaskTx(sender, taskId) ==
  LET st == ClaimStatus(sender, taskId) IN
  /\ tasks' = IF st = OK THEN [tasks EXCEPT ![taskId].worker = sender] ELSE tasks
  /\ last' = Call("claimTask", sender, taskId, st, 0, <<>>)
  /\ claimOk' = IF st = OK THEN [claimOk EXCEPT ![taskId] = @ + 1] ELSE claimOk
  /\ UNCHANGED <<taskCount, balances, funds, wallet, earned, credited>>

\* claimTask(taskId)
claimTask(sender, taskId) ==
  /\ claimTaskTx(sender, taskId)
  /\ UNCHANGED procVars

\* A faulty variant of SubmitStatus: the require on completed is missing.
SubmitStatusNoCompletedCheck(sender, taskId) ==
  IF ~(taskId <= taskCount) THEN InvalidTaskId
  ELSE IF tasks[taskId].worker # sender THEN NotAssignedWorker
  ELSE OK

\* A faulty variant of SubmitStatus: the require on msg.sender is missing.
SubmitStatusNoWorkerCheck(sender, taskId) ==
  IF ~(taskId <= taskCount) THEN InvalidTaskId
  ELSE IF tasks[taskId].completed THEN AlreadyCompleted
  ELSE OK

\* A faulty variant of SubmitStatus: an unclaimed task is open to any sender.
SubmitStatusUnclaimedOpen(sender, taskId) ==
  IF ~(taskId <= taskCount) THEN InvalidTaskId
  ELSE IF tasks[taskId].worker # sender /\ tasks[taskId].worker # ZeroAddress
       THEN NotAssignedWorker
  ELSE IF tasks[taskId].completed THEN AlreadyCompleted
  ELSE OK

\* The require chain of submitResult.
SubmitStatus(sender, taskId) ==
  IF ~(taskId <= taskCount) THEN InvalidTaskId
  ELSE IF tasks[taskId].worker # sender THEN NotAssignedWorker
  ELSE IF tasks[taskId].completed THEN AlreadyCompleted
  ELSE OK

\* A faulty variant of CreditReward: the reward is never added.
CreditRewardNone(sender, taskId) == balances

\* A faulty variant of CreditReward: one unit more than the reward is credited.
CreditRewardPlusOne(sender, taskId) ==
  IF tasks[taskId].reward > 0
  THEN [balances EXCEPT ![sender] = @ + tasks[taskId].reward + 1]
  ELSE balances

\* The body of submitResult after its requires: the balances it leaves.
CreditReward(sender, taskId) ==
  IF tasks[taskId].reward > 0
  THEN [balances EXCEPT ![sender] = @ + tasks[taskId].reward]
  ELSE balances

\* submitResult(taskId, result): what the transaction does to the registry.
submitResultTx(sender, taskId, result) ==
  LET st == SubmitStatus(sender, taskId) IN
  /\ tasks' = IF st = OK
              THEN [tasks EXCEPT ![taskId].result = result,
                                 ![taskId].completed = TRUE]
              ELSE tasks
  /\ balances' = IF st = OK THEN CreditReward(sender, taskId) ELSE balances
  /\ last' = Call("submitResult", sender, taskId, st, 0, <<>>)
  /\ earned' = IF st = OK THEN [earned EXCEPT ![sender] = @ \cup {taskId}]
               ELSE earned
  /\ credited' = IF st = OK
                 THEN credited + (CreditReward(sender, taskId)[sender] - balances[sender])
                 ELSE credited
  /\ UNCHANGED <<taskCount, funds, wallet, claimOk>>

\* submitResult(taskId, result)
submitResult(sender, taskId, result) ==
  /\ submitResultTx(sender, taskId, result)
  /\ UNCHANGED procVars

\* A faulty variant of WithdrawStatus: the require on the amount is missing.
WithdrawStatusNoRequire(sender) ==
  IF funds < balances[sender] THEN TransferFailed ELSE OK

\* withdrawBalance: the require, then transfer, which reverts when the
\* contract holds less than the amount.
WithdrawStatus(sender) ==
  IF ~(balances[sender] > 0) THEN NoBalance
  ELSE IF funds < balances[sender] THEN TransferFailed
  ELSE OK

\* A faulty variant of WithdrawBalances: the balance is not zeroed.
WithdrawBalancesKept(sender) == balances

\* The balances withdrawBalance leaves when it succeeds.
WithdrawBalances(sender) == [balances EXCEPT ![sender] = 0]

\* withdrawBalance()
withdrawBalance(sender) ==
  LET st == WithdrawStatus(sender)
      amount == balances[sender] IN
  /\ balances' = IF st = OK THEN WithdrawBalances(sender) ELSE balances
  /\ funds' = IF st = OK THEN funds - amount ELSE funds
  /\ wallet' = IF st = OK THEN [wallet EXCEPT ![sender] = @ + amount] ELSE wallet
  /\ last' = Call("withdrawBalance", sender, 0, st, IF st = OK THEN amount ELSE 0, <<>>)
  /\ earned' = IF st = OK THEN [earned EXCEPT ![sender] = {}] ELSE earned
  /\ UNCHANGED <<taskCount, tasks, claimOk, credited>>
  /\ UNCHANGED procVars

\* A faulty variant of LatestStart: the window starts one task too early.
LatestStartOffByOne(count) ==
  IF taskCount > count THEN taskCount - count ELSE 1

\* getLatestTasks(count): start, the array's length, then the copy loop.
LatestStart(count) ==
  IF taskCount > count THEN taskCount - count + 1 ELSE 1

LatestTasks(count) ==
  LET start == LatestStart(count)
      len == IF taskCount >= start THEN taskCount - start + 1 ELSE 0
  IN [j \in 1 .. len |-> tasks[start + j - 1]]

\* getLatestTasks(count), a view call
getLatestTasks(count) ==
  /\ last' = Call("getLatestTasks", ZeroAddress, count, OK, 0, LatestTasks(count))
  /\ UNCHANGED <<taskCount, tasks, balances, funds, wallet, claimOk, earned, credited>>
  /\ UNCHANGED procVars

RegNext ==
  \/ \E s \in Requesters, f \in FuncTypes, d \in Payloads, v \in 0 .. MaxReward :
        submitTask(s, f, d, v)
  \/ \E s \in Addr, t \in TaskIds : claimTask(s, t)
  \/ \E s \in Addr, t \in TaskIds, r \in Results : submitResult(s, t, r)
  \/ \E s \in Addr : withdrawBalance(s)
  \/ \E k \in 0 .. MaxCount : getLatestTasks(k)

\* The worker process at rest: the registry runs without it.
NonceIdle ==
  /\ chainTxCount = 0
  /\ nextNonce = NULL
  /\ nonceLock = 0
  /\ resolved = {0}
  /\ flow = [f \in {} |-> 0]
  /\ seed = NULL
  /\ issued = <<>>

TxIdle ==
  /\ ops = [f \in {} |-> 0]
  /\ pending = {}
  /\ pendingTransactions = {}
  /\ sent = <<>>
  /\ resyncDue = FALSE
  /\ resynced = NULL

PollIdle ==
  /\ phase = "new"
  /\ boot = NULL
  /\ lastProcessedTaskId = 0
  /\ claimedTasks = {}
  /\ ticks = [k \in {} |-> 0]
  /\ claimSent = [i \in TaskIds |-> 0]
  /\ resultSent = [i \in TaskIds |-> 0]
  /\ rejected = {}
  /\ emitted = [e \in Events |-> [i \in TaskIds |-> 0]]
  /\ executorFailed = {}
  /\ conflicted = {}
  /\ scanFailed = FALSE

RetryIdle ==
  /\ rpc = "idle"
  /\ retryTask = 0
  /\ attempt = 0
  /\ bid = 0
  /\ bids = <<>>
  /\ caught = <<>>

\* The constructor: isRunning = false, no timer.
LifeIdle ==
  /\ isRunning = FALSE
  /\ pollingTimer = NULL
  /\ timers = {}
  /\ lifeCalls = 0
  /\ lifeLast = "none"
  /\ began = 0

\* The callbacks of the requester's interval that can be in progress at
\* one time.
Polls == {1, 2}

\* No wait has been started.
WaitIdle ==
  /\ waitTask = NULL
  /\ waitState = "none"
  /\ waitValue = NULL
  /\ pollTimer = FALSE
  /\ elapsed = FALSE
  /\ polls = [k \in Polls |-> "idle"]
  /\ settleCalls = 0

SideIdle == LifeIdle /\ WaitIdle

Init == RegInit /\ NonceIdle /\ TxIdle /\ PollIdle /\ RetryIdle /\ SideIdle

Next == RegNext

Spec == Init /\ [][Next]_vars

\* ------------------------------------------------------------- nonce
\* The asynchronous flows of one worker that allocate a nonce: attemptClaimTask,
\* submitTaskResult and withdrawEarnings, which overlap at their await points.
Flows == {"claim", "submit", "withdraw"}

IdleFlow == [pc |-> "idle", currentLock |-> 0, releaseNext |-> 0]

\* After the constructor (nextNonce null) or after initialize(), which seeds
\* nextNonce from the chain's transaction count.  Promise 0 is the resolved
\* promise the constructor stores in nonceLock.
NonceInit ==
  /\ chainTxCount \in 0 .. MaxSeed
  /\ nextNonce \in {NULL, chainTxCount}
  /\ nonceLock = 0
  /\ resolved = {0}
  /\ flow = [f \in Flows |-> IdleFlow]
  /\ seed = nextNonce
  /\ issued = <<>>

\* _getNextNonce up to its first await: take the tail of the lock chain and
\* append a new unresolved promise to it.
getNextNonceEnter(f) ==
  /\ flow[f].pc = "idle"
  /\ nonceLock < MaxCalls
  /\ nonceLock' = nonceLock + 1
  /\ flow' = [flow EXCEPT ![f] = [pc |-> "awaitLock", currentLock |-> nonceLock,
                                  releaseNext |-> nonceLock + 1]]
  /\ UNCHANGED <<nextNonce, resolved, chainTxCount, seed, issued>>
  /\ UNCHANGED regVars

\* A faulty variant of LockAcquired: the call does not await currentLock.
LockAcquiredNoWait(f) == TRUE

\* await currentLock: the flow resumes once that promise is resolved.
LockAcquired(f) == flow[f].currentLock \in resolved

\* return this.nextNonce++ : the counter after a value is handed out.
NonceAfter(n) == n + 1

\* The try block when nextNonce is set: return nextNonce++, then the finally
\* block resolves the promise this call appended.
getNextNonceReturn(f) ==
  /\ flow[f].pc = "awaitLock"
  /\ LockAcquired(f)
  /\ nextNonce # NULL
  /\ issued' = Append(issued, nextNonce)
  /\ nextNonce' = NonceAfter(nextNonce)
  /\ resolved' = resolved \cup {flow[f].releaseNext}
  /\ flow' = [flow EXCEPT ![f] = IdleFlow]
  /\ UNCHANGED <<nonceLock, chainTxCount, seed>>
  /\ UNCHANGED regVars

\* The try block when nextNonce is null: await getTransactionCount.
getNextNonceFetch(f) ==
  /\ flow[f].pc = "awaitLock"
  /\ LockAcquired(f)
  /\ nextNonce = NULL
  /\ flow' = [flow EXCEPT ![f].pc = "awaitCount"]
  /\ UNCHANGED <<nextNonce, nonceLock, resolved, chainTxCount, seed, issued>>
  /\ UNCHANGED regVars

\* getTransactionCount answers: nextNonce is assigned, then return nextNonce++
\* and the finally block.
getNextNonceFetched(f) ==
  /\ flow[f].pc = "awaitCount"
  /\ issued' = Append(issued, chainTxCount)
  /\ nextNonce' = NonceAfter(chainTxCount)
  /\ seed' = IF seed = NULL THEN chainTxCount ELSE seed
  /\ resolved' = resolved \cup {flow[f].releaseNext}
  /\ flow' = [flow EXCEPT ![f] = IdleFlow]
  /\ UNCHANGED <<nonceLock, chainTxCount>>
  /\ UNCHANGED regVars

\* getTransactionCount throws: the call rejects, the finally block still runs.
getNextNonceFailed(f) ==
  /\ flow[f].pc = "awaitCount"
  /\ resolved' = resolved \cup {flow[f].releaseNext}
  /\ flow' = [flow EXCEPT ![f] = IdleFlow]
  /\ UNCHANGED <<nextNonce, nonceLock, chainTxCount, seed, issued>>
  /\ UNCHANGED regVars

NonceNext ==
  \E f \in Flows :
    \/ getNextNonceEnter(f) /\ UNCHANGED outsideNonce
    \/ getNextNonceReturn(f) /\ UNCHANGED outsideNonce
    \/ getNextNonceFetch(f) /\ UNCHANGED outsideNonce
    \/ getNextNonceFetched(f) /\ UNCHANGED outsideNonce
    \/ getNextNonceFailed(f) /\ UNCHANGED outsideNonce

\* No operation has started: what the flows do with a nonce is left out.
IdleOp == [pc |-> "idle", nonce |-> NULL, read |-> NULL]

TxInit ==
  /\ ops = [f \in Flows |-> IdleOp]
  /\ pending = {}
  /\ pendingTransactions = {}
  /\ sent = <<>>
  /\ resyncDue = FALSE
  /\ resynced = NULL

\* The worker's allocator runs against a registry that is left alone.
NonceSpecInit == RegInit /\ NonceInit /\ TxInit /\ PollIdle /\ RetryIdle /\ SideIdle

NonceSpec == NonceSpecInit /\ [][NonceNext]_vars

\* ------------------------------------------------------------- transactions
\* One operation of a flow (attemptClaimTask, submitTaskResult,
\* withdrawEarnings): allocate a nonce, send the transaction with it, wait for
\* the receipt; the catch block of the first two calls _refreshNonce on a
\* nonce error.  ops[f].pc is the await the flow is suspended at.

\* The catch blocks that test for a nonce error and call _refreshNonce.
Resyncing == {"claim", "submit"}

\* The flows that record their transaction in this.pendingTransactions:
\* attemptClaimTask and submitTaskResult; withdrawEarnings does not.
Tracked == {"claim", "submit"}

\* nonce = await this._getNextNonce(): the call is entered.
opBegin(f) ==
  /\ ops[f].pc = "idle"
  /\ getNextNonceEnter(f)
  /\ ops' = [ops EXCEPT ![f].pc = "alloc"]
  /\ UNCHANGED <<pending, pendingTransactions, sent, resyncDue, resynced>>
  /\ UNCHANGED outsideTx

\* _getNextNonce finds nextNonce null and awaits the chain's count.
opFetch(f) ==
  /\ ops[f].pc = "alloc"
  /\ getNextNonceFetch(f)
  /\ UNCHANGED <<txVars, outsideTx>>

\* _getNextNonce returns: the flow holds its nonce and awaits getFeeData.
opAllocated(f) ==
  /\ ops[f].pc = "alloc"
  /\ \/ getNextNonceReturn(f)
     \/ getNextNonceFetched(f)
  /\ ops' = [ops EXCEPT ![f] = [pc |-> "ready", nonce |-> issued'[Len(issued')],
                              read |-> NULL]]
  /\ resynced' = NULL
  /\ UNCHANGED <<pending, pendingTransactions, sent, resyncDue>>
  /\ UNCHANGED outsideTx

\* _getNextNonce rejects: the error is not a nonce error, the operation ends.
opAllocFailed(f) ==
  /\ ops[f].pc = "alloc"
  /\ getNextNonceFailed(f)
  /\ ops' = [ops EXCEPT ![f] = IdleOp]
  /\ UNCHANGED <<pending, pendingTransactions, sent, resyncDue, resynced>>
  /\ UNCHANGED outsideTx

\* getFeeData throws, or the node refuses the transaction for another reason
\* than its nonce (insufficient funds, underpriced replacement): the catch
\* block logs, the allocated nonce stays unused.
sendFailed(f) ==
  /\ ops[f].pc = "ready"
  /\ ops' = [ops EXCEPT ![f] = IdleOp]
  /\ UNCHANGED <<pending, pendingTransactions, sent, resyncDue, resynced>>
  /\ UNCHANGED <<nonceVars, regVars, outsideTx>>

\* The node takes the transaction: its nonce is not below the chain's count.
\* A transaction in flight with the same nonce is replaced.
sendAccepted(f) ==
  /\ ops[f].pc = "ready"
  /\ ops[f].nonce >= chainTxCount
  /\ sent' = Append(sent, ops[f].nonce)
  /\ pending' = pending \cup {ops[f].nonce}
  /\ pendingTransactions' = IF f \in Tracked
                            THEN pendingTransactions \cup {ops[f].nonce}
                            ELSE pendingTransactions
  /\ ops' = [ops EXCEPT ![f].pc = "waiting"]
  /\ UNCHANGED <<resyncDue, resynced>>
  /\ UNCHANGED <<nonceVars, regVars, outsideTx>>

\* The node rejects the transaction: nonce too low (NONCE_EXPIRED).  The catch
\* block of attemptClaimTask and submitTaskResult enters _refreshNonce, that
\* of withdrawEarnings rethrows.
sendRejected(f) ==
  /\ ops[f].pc = "ready"
  /\ ops[f].nonce < chainTxCount
  /\ resyncDue' = TRUE
  /\ ops' = [ops EXCEPT ![f] = IF f \in Resyncing
                               THEN [pc |-> "refresh", nonce |-> NULL, read |-> NULL]
                               ELSE IdleOp]
  /\ UNCHANGED <<pending, pendingTransactions, sent, resynced>>
  /\ UNCHANGED <<nonceVars, regVars, outsideTx>>

\* The chain mines the transaction in flight whose nonce is the count.
txMined ==
  /\ chainTxCount \in pending
  /\ pending' = pending \ {chainTxCount}
  /\ chainTxCount' = chainTxCount + 1
  /\ UNCHANGED <<ops, pendingTransactions, sent, resyncDue, resynced>>
  /\ UNCHANGED <<nextNonce, nonceLock, resolved, flow, seed, issued>>
  /\ UNCHANGED <<regVars, outsideTx>>

\* await tx.wait() resolves: the operation is over.
receipt(f) ==
  /\ ops[f].pc = "waiting"
  /\ ops[f].nonce < chainTxCount
  /\ ops' = [ops EXCEPT ![f] = IdleOp]
  /\ pendingTransactions' = IF f \in Tracked
                            THEN pendingTransactions \ {ops[f].nonce}
                            ELSE pendingTransactions
  /\ UNCHANGED <<pending, sent, resyncDue, resynced>>
  /\ UNCHANGED <<nonceVars, regVars, outsideTx>>

\* await tx.wait() throws: the mined transaction reverted (the gas limit is
\* given, so the call is sent without a dry run).  The error is not a nonce
\* error: the catch block logs, withdrawEarnings rethrows.
receiptFailed(f) ==
  /\ ops[f].pc = "waiting"
  /\ ops[f].nonce < chainTxCount
  /\ ops' = [ops EXCEPT ![f] = IdleOp]
  /\ UNCHANGED <<pending, pendingTransactions, sent, resyncDue, resynced>>
  /\ UNCHANGED <<nonceVars, regVars, outsideTx>>

\* A transaction of the same identity sent by another process (an earlier run
\* of the worker, another program holding the key) is mined.
externalTx ==
  /\ chainTxCount < MaxChain
  /\ chainTxCount \notin pending
  /\ chainTxCount' = chainTxCount + 1
  /\ UNCHANGED txVars
  /\ UNCHANGED <<nextNonce, nonceLock, resolved, flow, seed, issued>>
  /\ UNCHANGED <<regVars, outsideTx>>

\* _refreshNonce: the node answers getTransactionCount(address, 'latest').
refreshRead(f) ==
  /\ ops[f].pc = "refresh"
  /\ ops[f].read = NULL
  /\ ops' = [ops EXCEPT ![f].read = chainTxCount]
  /\ UNCHANGED <<pending, pendingTransactions, sent, resyncDue, resynced>>
  /\ UNCHANGED <<nonceVars, regVars, outsideTx>>

\* A faulty variant of RefreshedNonce: the counter is left as it is.
RefreshedNonceKept(count) == nextNonce

\* this.nextNonce = <the count read>: the assignment of _refreshNonce.
RefreshedNonce(count) == count

\* _refreshNonce resumes with the answer and assigns nextNonce; no lock is
\* taken.  The catch block returns.
refreshWrite(f) ==
  /\ ops[f].pc = "refresh"
  /\ ops[f].read # NULL
  /\ nextNonce' = RefreshedNonce(ops[f].read)
  /\ resyncDue' = FALSE
  /\ resynced' = IF ops[f].read > resynced THEN ops[f].read ELSE resynced
  /\ ops' = [ops EXCEPT ![f] = IdleOp]
  /\ UNCHANGED <<pending, pendingTransactions, sent>>
  /\ UNCHANGED <<nonceLock, resolved, flow, chainTxCount, seed, issued>>
  /\ UNCHANGED <<regVars, outsideTx>>

\* getTransactionCount throws inside _refreshNonce: nextNonce is not written.
refreshFailed(f) ==
  /\ ops[f].pc = "refresh"
  /\ ops[f].read = NULL
  /\ ops' = [ops EXCEPT ![f] = IdleOp]
  /\ UNCHANGED <<pending, pendingTransactions, sent, resyncDue, resynced>>
  /\ UNCHANGED <<nonceVars, regVars, outsideTx>>

TxNext ==
  \/ \E f \in Flows :
        \/ opBegin(f)
        \/ opFetch(f)
        \/ opAllocated(f)
        \/ opAllocFailed(f)
        \/ sendFailed(f)
        \/ sendAccepted(f)
        \/ sendRejected(f)
        \/ receipt(f)
        \/ receiptFailed(f)
        \/ refreshRead(f)
        \/ refreshWrite(f)
        \/ refreshFailed(f)
  \/ txMined
  \/ externalTx

TxSpecInit == RegInit /\ NonceInit /\ TxInit /\ PollIdle /\ RetryIdle /\ SideIdle

TxSpec == TxSpecInit /\ [][TxNext]_vars

\* ------------------------------------------------------------- poll loop
\* checkForAvailableTasks of task-claimer.js, run by the setInterval callback
\* of startPolling.  The callback is async and setInterval does not wait for
\* it, so a second callback can start while the first is suspended.
Self == "A"                              \* this.wallet.address
Other == "B"                             \* a competing worker
PollWindow == 5                          \* getLatestTasks(5)
Ticks == {1, 2}                          \* callbacks that can be in progress

\* A faulty variant of Max: the first argument is kept.
MaxLeft(a, b) == a

Max(a, b) == IF a >= b THEN a ELSE b

\* pc: the await the callback is suspended at.  entryClaimed and seenLast
\* record what held when the loop reached the current item, low whether an
\* attemptClaimTask of this run has found the balance below 0.005.
IdleTick ==
  [pc |-> "idle", snap |-> <<>>, i |-> 0, status |-> OK,
   entryClaimed |-> FALSE, seenLast |-> 0, low |-> FALSE]

PollInit ==
  /\ phase = "new"
  /\ boot = NULL
  /\ lastProcessedTaskId = 0
  /\ claimedTasks = {}
  /\ ticks = [k \in Ticks |-> IdleTick]
  /\ claimSent = [i \in TaskIds |-> 0]
  /\ resultSent = [i \in TaskIds |-> 0]
  /\ rejected = {}
  /\ emitted = [e \in Events |-> [i \in TaskIds |-> 0]]
  /\ executorFailed = {}
  /\ conflicted = {}
  /\ scanFailed = FALSE

\* A faulty variant of Processed: no task counts as processed.
ProcessedNever(taskId, lp) == FALSE

\* if (taskId <= this.lastProcessedTaskId) continue
Processed(taskId, lp) == taskId <= lp

\* A faulty variant of TakenOrDone: a task of another worker is not skipped.
TakenOrDoneCompletedOnly(task) == task.completed

\* if (task.completed || (task.worker !== ZeroAddress && task.worker !== self))
TakenOrDone(task) ==
  task.completed \/ (task.worker # ZeroAddress /\ task.worker # Self)

\* The for loop from item i to its next await: the loop index, the
\* lastProcessedTaskId it leaves and the await it stops at ("idle" when the
\* loop has ended).
RECURSIVE Scan(_, _, _)
Scan(snap, i, lp) ==
  IF i > Len(snap) THEN [pc |-> "idle", i |-> 0, lp |-> lp]
  ELSE IF Processed(snap[i].id, lp) THEN Scan(snap, i + 1, lp)
  ELSE IF TakenOrDone(snap[i]) THEN Scan(snap, i + 1, Max(lp, snap[i].id))
  ELSE IF snap[i].id \in claimedTasks THEN Scan(snap, i + 1, lp)
  ELSE IF snap[i].worker = ZeroAddress /\ ~snap[i].completed
       THEN [pc |-> "claim", i |-> i, lp |-> lp]
  ELSE [pc |-> "execute", i |-> i, lp |-> lp]

\* The task the callback is at.
TaskAt(k) == ticks[k].snap[ticks[k].i]

\* After attemptClaimTask returned: the test of line 161 on the same snapshot
\* entry, then line 166 and the rest of the loop.
AfterClaim(k) ==
  IF TaskAt(k).worker = Self /\ ~TaskAt(k).completed
  THEN [pc |-> "execute", i |-> ticks[k].i, lp |-> lastProcessedTaskId]
  ELSE Scan(ticks[k].snap, ticks[k].i + 1,
            Max(lastProcessedTaskId, TaskAt(k).id))

\* After executeClaimedTask returned: line 166 and the rest of the loop.
AfterExecute(k) ==
  Scan(ticks[k].snap, ticks[k].i + 1, Max(lastProcessedTaskId, TaskAt(k).id))

\* The callback moves to where r says; on reaching an item it notes whether
\* the registry already shows that task claimed or completed.
GotoWith(k, snap, r, low) ==
  /\ lastProcessedTaskId' = r.lp
  /\ ticks' = [ticks EXCEPT ![k] =
       IF r.pc = "idle" THEN IdleTick
       ELSE [pc |-> r.pc, snap |-> snap, i |-> r.i, status |-> OK,
             entryClaimed |-> (tasks[snap[r.i].id].worker # ZeroAddress
                                \/ tasks[snap[r.i].id].completed),
             seenLast |-> r.lp, low |-> low]]

Goto(k, snap, r) == GotoWith(k, snap, r, ticks[k].low)

\* A faulty variant of Confirmed: a reverted transaction counts as confirmed.
ConfirmedAlways(status) == TRUE

\* await tx.wait() resolved: the transaction was mined and not reverted.
Confirmed(status) == status = OK

\* A faulty variant of Caught: the error leaves the callback and ends the
\* process.
Uncaught(running) == "crashed"

\* catch (error) { console.error(...) }: isRunning and the timer stay as
\* they are.
Caught(running) == running

\* A faulty variant of InitialNonce: the counter starts at zero.
InitialNonceZero(count) == 0

\* this.nextNonce = await getTransactionCount(address, 'latest')
InitialNonce(count) == count

\* this.emit(name, {taskId, ...})
Emit(name, taskId) == [emitted EXCEPT ![name][taskId] = @ + 1]

\* initialize() up to the answer of contract.taskCount() (line 49).
initialize ==
  /\ phase = "new"
  /\ phase' = "counted"
  /\ boot' = taskCount
  /\ UNCHANGED <<lastProcessedTaskId, claimedTasks, ticks, claimSent,
                 resultSent, rejected, pollLog>>
  /\ UNCHANGED <<regVars, outsidePoll>>

\* getTransactionCount(address, 'latest') answers: nextNonce and
\* lastProcessedTaskId are assigned, 'initialized' is emitted.
initialized ==
  /\ phase = "counted"
  /\ phase' = "ready"
  /\ nextNonce' = InitialNonce(chainTxCount)
  /\ seed' = InitialNonce(chainTxCount)
  /\ lastProcessedTaskId' = boot
  /\ UNCHANGED <<boot, claimedTasks, ticks, claimSent, resultSent, rejected,
                 pollLog>>
  /\ UNCHANGED <<nonceLock, resolved, flow, chainTxCount, issued>>
  /\ UNCHANGED <<regVars, txVars, retryVars, sideVars>>

\* A call awaited by initialize() throws: the catch rethrows and main exits.
initFailed ==
  /\ phase \in {"new", "counted"}
  /\ phase' = "failed"
  /\ UNCHANGED <<boot, lastProcessedTaskId, claimedTasks, ticks, claimSent,
                 resultSent, rejected, pollLog>>
  /\ UNCHANGED <<regVars, outsidePoll>>

\* startPolling(): isRunning = true and the timer is set.
startPolling ==
  /\ phase = "ready"
  /\ phase' = "polling"
  /\ UNCHANGED <<boot, lastProcessedTaskId, claimedTasks, ticks, claimSent,
                 resultSent, rejected, pollLog>>
  /\ UNCHANGED <<regVars, outsidePoll>>

\* main(): initialize, then startPolling.
Boot ==
  \/ initialize
  \/ initialized
  \/ startPolling

\* The timer fires: checkForAvailableTasks awaits getLatestTasks(5).
tickFire(k) ==
  /\ phase = "polling"
  /\ ticks[k].pc = "idle"
  /\ ticks' = [ticks EXCEPT ![k].pc = "list"]
  /\ UNCHANGED <<phase, boot, lastProcessedTaskId, claimedTasks, claimSent,
                 resultSent, rejected, pollLog>>
  /\ UNCHANGED <<regVars, outsidePoll>>

\* getLatestTasks answers: the loop runs up to its first await.
listed(k) ==
  /\ ticks[k].pc = "list"
  /\ Goto(k, LatestTasks(PollWindow), Scan(LatestTasks(PollWindow), 1, lastProcessedTaskId))
  /\ UNCHANGED <<phase, boot, claimedTasks, claimSent, resultSent, rejected, pollLog>>
  /\ UNCHANGED <<regVars, outsidePoll>>

\* getLatestTasks throws: the catch of checkForAvailableTasks logs.
listFailed(k) ==
  /\ ticks[k].pc = "list"
  /\ ticks' = [ticks EXCEPT ![k] = IdleTick]
  /\ phase' = Caught(phase)
  /\ scanFailed' = TRUE
  /\ UNCHANGED <<boot, lastProcessedTaskId, claimedTasks, claimSent,
                 resultSent, rejected, emitted, executorFailed, conflicted>>
  /\ UNCHANGED <<regVars, outsidePoll>>

\* getBalance answers less than 0.005: attemptClaimTask logs and returns.
balanceLow(k) ==
  /\ ticks[k].pc = "claim"
  /\ GotoWith(k, ticks[k].snap, AfterClaim(k), TRUE)
  /\ UNCHANGED <<phase, boot, claimedTasks, claimSent, resultSent, rejected, pollLog>>
  /\ UNCHANGED <<regVars, outsidePoll>>

\* attemptClaimTask returns without a transaction in flight for another
\* reason: getBalance, _getNextNonce, getFeeData or the send throws (nonce
\* error and _refreshNonce, insufficient funds, anything else).
claimFailed(k) ==
  /\ ticks[k].pc = "claim"
  /\ Goto(k, ticks[k].snap, AfterClaim(k))
  /\ UNCHANGED <<phase, boot, claimedTasks, claimSent, resultSent, rejected, pollLog>>
  /\ UNCHANGED <<regVars, outsidePoll>>

\* tx = await contract.claimTask(taskId, ...): the transaction is in flight.
claimSend(k) ==
  /\ ticks[k].pc = "claim"
  /\ claimSent' = [claimSent EXCEPT ![TaskAt(k).id] = @ + 1]
  /\ ticks' = [ticks EXCEPT ![k].pc = "claimWait"]
  /\ UNCHANGED <<phase, boot, lastProcessedTaskId, claimedTasks, resultSent, rejected, pollLog>>
  /\ UNCHANGED <<regVars, outsidePoll>>

\* The claim transaction is mined: the registry runs claimTask for it.
claimMined(k) ==
  /\ ticks[k].pc = "claimWait"
  /\ claimTaskTx(Self, TaskAt(k).id)
  /\ ticks' = [ticks EXCEPT ![k].pc = "claimDone",
                            ![k].status = ClaimStatus(Self, TaskAt(k).id)]
  /\ UNCHANGED <<phase, boot, lastProcessedTaskId, claimedTasks, claimSent,
                 resultSent, rejected, pollLog>>
  /\ UNCHANGED outsidePoll

\* await tx.wait() resolves or throws: claimedTasks.set on success, the catch
\* block otherwise; attemptClaimTask returns.
claimReceipt(k) ==
  /\ ticks[k].pc = "claimDone"
  /\ claimedTasks' = IF Confirmed(ticks[k].status)
                      THEN claimedTasks \cup {TaskAt(k).id} ELSE claimedTasks
  /\ rejected' = IF ticks[k].status = AlreadyClaimed
                  THEN rejected \cup {TaskAt(k).id} ELSE rejected
  /\ emitted' = IF Confirmed(ticks[k].status)
                 THEN Emit("taskClaimed", TaskAt(k).id) ELSE emitted
  /\ Goto(k, ticks[k].snap, AfterClaim(k))
  /\ UNCHANGED <<phase, boot, claimSent, resultSent, executorFailed, conflicted,
                 scanFailed>>
  /\ UNCHANGED <<regVars, outsidePoll>>

\* executeClaimedTask: the executor returns a result, submitTaskResult starts.
executed(k) ==
  /\ ticks[k].pc = "execute"
  /\ ticks' = [ticks EXCEPT ![k].pc = "submit"]
  /\ UNCHANGED <<phase, boot, lastProcessedTaskId, claimedTasks, claimSent,
                 resultSent, rejected, pollLog>>
  /\ UNCHANGED <<regVars, outsidePoll>>

\* The executor throws: the catch of executeClaimedTask logs.
executeFailed(k) ==
  /\ ticks[k].pc = "execute"
  /\ executorFailed' = executorFailed \cup {TaskAt(k).id}
  /\ Goto(k, ticks[k].snap, AfterExecute(k))
  /\ UNCHANGED <<phase, boot, claimedTasks, claimSent, resultSent, rejected,
                 emitted, conflicted, scanFailed>>
  /\ UNCHANGED <<regVars, outsidePoll>>

\* contract.submitResult throws a nonce error: the catch of submitTaskResult
\* awaits _refreshNonce and returns; the id stays in claimedTasks.
submitConflict(k) ==
  /\ ticks[k].pc = "submit"
  /\ conflicted' = conflicted \cup {TaskAt(k).id}
  /\ Goto(k, ticks[k].snap, AfterExecute(k))
  /\ UNCHANGED <<phase, boot, claimedTasks, claimSent, resultSent, rejected,
                 emitted, executorFailed, scanFailed>>
  /\ UNCHANGED <<regVars, outsidePoll>>

\* submitTaskResult returns without a transaction in flight for another
\* reason: _getNextNonce, getFeeData or the send throws.
submitFailed(k) ==
  /\ ticks[k].pc = "submit"
  /\ Goto(k, ticks[k].snap, AfterExecute(k))
  /\ UNCHANGED <<phase, boot, claimedTasks, claimSent, resultSent, rejected, pollLog>>
  /\ UNCHANGED <<regVars, outsidePoll>>

\* tx = await contract.submitResult(taskId, resultJson, ...).
submitSend(k) ==
  /\ ticks[k].pc = "submit"
  /\ resultSent' = [resultSent EXCEPT ![TaskAt(k).id] = @ + 1]
  /\ ticks' = [ticks EXCEPT ![k].pc = "submitWait"]
  /\ UNCHANGED <<phase, boot, lastProcessedTaskId, claimedTasks, claimSent, rejected, pollLog>>
  /\ UNCHANGED <<regVars, outsidePoll>>

\* The submitResult transaction is mined.
submitMined(k) ==
  /\ ticks[k].pc = "submitWait"
  /\ submitResultTx(Self, TaskAt(k).id, "84")
  /\ ticks' = [ticks EXCEPT ![k].pc = "submitDone",
                            ![k].status = SubmitStatus(Self, TaskAt(k).id)]
  /\ UNCHANGED <<phase, boot, lastProcessedTaskId, claimedTasks, claimSent,
                 resultSent, rejected, pollLog>>
  /\ UNCHANGED outsidePoll

\* await tx.wait() resolves or throws: claimedTasks.delete on success.
submitReceipt(k) ==
  /\ ticks[k].pc = "submitDone"
  /\ claimedTasks' = IF Confirmed(ticks[k].status)
                      THEN claimedTasks \ {TaskAt(k).id} ELSE claimedTasks
  /\ emitted' = IF Confirmed(ticks[k].status)
                 THEN Emit("taskCompleted", TaskAt(k).id) ELSE emitted
  /\ Goto(k, ticks[k].snap, AfterExecute(k))
  /\ UNCHANGED <<phase, boot, claimSent, resultSent, rejected, executorFailed,
                 conflicted, scanFailed>>
  /\ UNCHANGED <<regVars, outsidePoll>>

\* The requester and the competing worker act on the registry.
postTask == \E v \in 0 .. MaxReward : submitTask("R", "javascript", "task1", v)

otherClaims == \E t \in 1 .. taskCount : claimTask(Other, t)

otherSubmits == \E t \in 1 .. taskCount : submitResult(Other, t, "84")

PollNext ==
  \/ Boot
  \/ initFailed
  \/ \E k \in Ticks :
        \/ tickFire(k)
        \/ listed(k)
        \/ listFailed(k)
        \/ balanceLow(k)
        \/ claimFailed(k)
        \/ claimSend(k)
        \/ claimMined(k)
        \/ claimReceipt(k)
        \/ executed(k)
        \/ executeFailed(k)
        \/ submitConflict(k)
        \/ submitFailed(k)
        \/ submitSend(k)
        \/ submitMined(k)
        \/ submitReceipt(k)
  \/ postTask
  \/ otherClaims
  \/ otherSubmits

PollSpecInit == RegInit /\ NonceIdle /\ TxIdle /\ PollInit /\ RetryIdle /\ SideIdle

PollSpec == PollSpecInit /\ [][PollNext]_vars

\* The poll loop when every call but a claim succeeds: getLatestTasks
\* answers, the executor returns a result, the result transaction is sent.
\* Each callback in progress eventually resumes (its awaited call settles),
\* and the timer keeps firing.
TickStep(k) ==
  \/ tickFire(k)
  \/ listed(k)
  \/ balanceLow(k)
  \/ claimFailed(k)
  \/ claimSend(k)
  \/ claimMined(k)
  \/ claimReceipt(k)
  \/ executed(k)
  \/ submitSend(k)
  \/ submitMined(k)
  \/ submitReceipt(k)

PollFairNext ==
  \/ Boot
  \/ \E k \in Ticks : TickStep(k)
  \/ postTask
  \/ otherClaims
  \/ otherSubmits

PollFairSpec ==
  /\ PollSpecInit
  /\ [][PollFairNext]_vars
  /\ WF_vars(Boot)
  /\ \A k \in Ticks : WF_vars(TickStep(k))

\* The fair poll loop in which a result submission can be refused with a
\* nonce error, at most once per task (the conflict does not recur).
firstConflict(k) ==
  /\ ticks[k].pc = "submit"
  /\ TaskAt(k).id \notin conflicted
  /\ submitConflict(k)

ConflictNext ==
  \/ PollFairNext
  \/ \E k \in Ticks : firstConflict(k)

ConflictSpec ==
  /\ PollSpecInit
  /\ [][ConflictNext]_vars
  /\ WF_vars(Boot)
  /\ \A k \in Ticks : WF_vars(TickStep(k))

\* The poll loop with three callbacks in progress at once and no failure but
\* the executor's: the timer has fired twice while a claim awaits its receipt.
Ticks3 == {1, 2, 3}

TripleInit ==
  /\ RegInit /\ NonceIdle /\ TxIdle /\ RetryIdle /\ SideIdle
  /\ phase = "new"
  /\ boot = NULL
  /\ lastProcessedTaskId = 0
  /\ claimedTasks = {}
  /\ ticks = [k \in Ticks3 |-> IdleTick]
  /\ claimSent = [i \in TaskIds |-> 0]
  /\ resultSent = [i \in TaskIds |-> 0]
  /\ rejected = {}
  /\ emitted = [e \in Events |-> [i \in TaskIds |-> 0]]
  /\ executorFailed = {}
  /\ conflicted = {}
  /\ scanFailed = FALSE

TripleNext ==
  \/ Boot
  \/ \E k \in Ticks3 :
        \/ tickFire(k)
        \/ listed(k)
        \/ claimSend(k)
        \/ claimMined(k)
        \/ claimReceipt(k)
        \/ executed(k)
        \/ executeFailed(k)
        \/ submitSend(k)
        \/ submitMined(k)
        \/ submitReceipt(k)
  \/ postTask

TripleSpec == TripleInit /\ [][TripleNext]_vars

\* ------------------------------------------------------------- start-up
\* main() constructs a new TaskClaimer: the process is started again, or the
\* uncaughtException handler calls main().  Transactions the earlier object
\* sent stay in flight.
restart ==
  /\ phase # "new"
  /\ chainTxCount < MaxChain
  /\ phase' = "new"
  /\ boot' = NULL
  /\ lastProcessedTaskId' = 0
  /\ claimedTasks' = {}
  /\ nextNonce' = NULL
  /\ nonceLock' = 0
  /\ resolved' = {0}
  /\ flow' = [f \in Flows |-> IdleFlow]
  /\ seed' = NULL
  /\ issued' = <<>>
  /\ ops' = [f \in Flows |-> IdleOp]
  /\ pendingTransactions' = {}
  /\ sent' = <<>>
  /\ resyncDue' = FALSE
  /\ resynced' = NULL
  /\ UNCHANGED <<chainTxCount, pending, ticks, claimSent, resultSent, rejected,
                 pollLog>>
  /\ UNCHANGED <<regVars, retryVars, sideVars>>

\* An operation of flow f of the started worker takes a step.  nextNonce is
\* not null after initialize(), so _getNextNonce never fetches the count.
working(f) ==
  /\ phase = "polling"
  /\ \/ opBegin(f)
     \/ opAllocated(f)
     \/ sendFailed(f)
     \/ sendAccepted(f)
     \/ sendRejected(f)
     \/ receipt(f)
     \/ refreshRead(f)
     \/ refreshWrite(f)
     \/ refreshFailed(f)

StartInit ==
  /\ RegInit /\ TxInit /\ PollIdle /\ RetryIdle /\ SideIdle
  /\ chainTxCount \in 0 .. MaxSeed
  /\ nextNonce = NULL
  /\ nonceLock = 0
  /\ resolved = {0}
  /\ flow = [f \in Flows |-> IdleFlow]
  /\ seed = NULL
  /\ issued = <<>>

StartNext ==
  \/ Boot
  \/ initFailed
  \/ restart
  \/ \E f \in Flows : working(f)
  \/ txMined
  \/ externalTx
  \/ postTask

StartSpec == StartInit /\ [][StartNext]_vars


\* ---------------------------------------- worker: more tasks than a window
\* One more task than a poll reads, all posted by the requester; one timer
\* callback at a time.
WindowTasks == PollWindow + 1
WindowIds == 0 .. (WindowTasks + 1)

WindowInit ==
  /\ taskCount = 0
  /\ tasks = [i \in WindowIds |-> EmptyTask]
  /\ balances = [a \in Addr |-> 0]
  /\ funds = 0
  /\ wallet = [a \in Addr |-> 0]
  /\ last = NoCall
  /\ claimOk = [i \in WindowIds |-> 0]
  /\ earned = [a \in Addr |-> {}]
  /\ credited = 0
  /\ NonceIdle /\ TxIdle /\ RetryIdle /\ SideIdle
  /\ phase = "new"
  /\ boot = NULL
  /\ lastProcessedTaskId = 0
  /\ claimedTasks = {}
  /\ ticks = [k \in {1} |-> IdleTick]
  /\ claimSent = [i \in WindowIds |-> 0]
  /\ resultSent = [i \in WindowIds |-> 0]
  /\ rejected = {}
  /\ emitted = [e \in Events |-> [i \in WindowIds |-> 0]]
  /\ executorFailed = {}
  /\ conflicted = {}
  /\ scanFailed = FALSE

\* The requester posts a task.
postWindow ==
  /\ taskCount < WindowTasks
  /\ submitTaskTx("R", "javascript", "task1", 0)
  /\ UNCHANGED procVars

\* The steps of the callback that take part here.
WindowStep(k) ==
  \/ tickFire(k)
  \/ listed(k)
  \/ claimFailed(k)
  \/ claimSend(k)
  \/ claimMined(k)
  \/ claimReceipt(k)

WindowNext ==
  \/ Boot
  \/ WindowStep(1)
  \/ postWindow

\* main() runs on, the interval keeps firing and every await of a callback
\* is answered; the requester posts when it likes.
WindowSpec ==
  WindowInit /\ [][WindowNext]_vars /\ WF_vars(Boot) /\ WF_vars(WindowStep(1))

\* ------------------------------------- retry variant: the polling round
\* checkForAvailableTasks of the TaskClaimer in task-executor.js, one timer
\* callback at a time, no other worker; attemptClaimTaskWithRetry is taken
\* as a whole here (its steps are in the claim retry part below).
RetryWindow == 10                        \* getLatestTasks(10)
maxClaimsPerRound == 2                   \* const maxClaimsPerRound = 2
RoundTasks == RetryWindow + maxClaimsPerRound + 1
RoundIds == 0 .. (RoundTasks + 1)

IdleRound == [pc |-> "idle", snap |-> <<>>, i |-> 0, claimsAttempted |-> 0]

RoundInit ==
  /\ taskCount = 0
  /\ tasks = [i \in RoundIds |-> EmptyTask]
  /\ balances = [a \in Addr |-> 0]
  /\ funds = 0
  /\ wallet = [a \in Addr |-> 0]
  /\ last = NoCall
  /\ claimOk = [i \in RoundIds |-> 0]
  /\ earned = [a \in Addr |-> {}]
  /\ credited = 0
  /\ NonceIdle /\ TxIdle /\ RetryIdle /\ SideIdle
  /\ phase = "new"
  /\ boot = NULL
  /\ lastProcessedTaskId = 0
  /\ claimedTasks = {}
  /\ ticks = [k \in {1} |-> IdleRound]
  /\ claimSent = [i \in RoundIds |-> 0]
  /\ resultSent = [i \in RoundIds |-> 0]
  /\ rejected = {}
  /\ emitted = [e \in Events |-> [i \in RoundIds |-> 0]]
  /\ executorFailed = {}
  /\ conflicted = {}
  /\ scanFailed = FALSE

\* The filter of availableTasks.
Available(task, lp) ==
  /\ task.worker = ZeroAddress
  /\ ~task.completed
  /\ task.id \notin claimedTasks
  /\ task.id > lp

\* if (claimsAttempted >= maxClaimsPerRound) break
CeilingReached(n) == n >= maxClaimsPerRound

\* The for loop from item i to its next await, with n claims attempted:
\* where it stops ("break" when the ceiling ends the loop, "idle" when the
\* list is used up) and the lastProcessedTaskId it leaves.
RECURSIVE RoundScan(_, _, _, _)
RoundScan(snap, i, lp, n) ==
  IF i > Len(snap) THEN [pc |-> "idle", i |-> 0, lp |-> lp, n |-> n]
  ELSE IF CeilingReached(n) THEN [pc |-> "break", i |-> i, lp |-> lp, n |-> n]
  ELSE IF snap[i].id <= lp THEN RoundScan(snap, i + 1, lp, n)
  ELSE IF snap[i].worker = ZeroAddress /\ ~snap[i].completed
       THEN [pc |-> "attempt", i |-> i, lp |-> lp, n |-> n]
  ELSE IF snap[i].worker = Self /\ ~snap[i].completed
       THEN [pc |-> "execute", i |-> i, lp |-> lp, n |-> n]
  ELSE RoundScan(snap, i + 1, Max(lp, snap[i].id), n)

\* The callback moves to where r says.
RoundGoto(k, snap, r) ==
  /\ lastProcessedTaskId' = r.lp
  /\ ticks' = [ticks EXCEPT ![k] =
       IF r.pc = "idle" THEN IdleRound
       ELSE [pc |-> r.pc, snap |-> snap, i |-> r.i, claimsAttempted |-> r.n]]

\* The interval fires: checkForAvailableTasks awaits getLatestTasks(10).
roundFire(k) ==
  /\ phase = "polling"
  /\ ticks[k].pc = "idle"
  /\ ticks' = [ticks EXCEPT ![k].pc = "list"]
  /\ UNCHANGED <<phase, boot, lastProcessedTaskId, claimedTasks, claimSent,
                 resultSent, rejected, pollLog>>
  /\ UNCHANGED <<regVars, outsidePoll>>

\* getLatestTasks answers: the filter, the early return, the loop up to its
\* first await.
roundListed(k) ==
  /\ ticks[k].pc = "list"
  /\ LET snap == LatestTasks(RetryWindow) IN
     IF \A j \in 1 .. Len(snap) : ~Available(snap[j], lastProcessedTaskId)
     THEN /\ ticks' = [ticks EXCEPT ![k] = IdleRound]
          /\ UNCHANGED lastProcessedTaskId
     ELSE RoundGoto(k, snap, RoundScan(snap, 1, lastProcessedTaskId, 0))
  /\ UNCHANGED <<phase, boot, claimedTasks, claimSent, resultSent, rejected, pollLog>>
  /\ UNCHANGED <<regVars, outsidePoll>>

\* The random delay is over and attemptClaimTaskWithRetry has returned with
\* the task claimed; claimsAttempted++, line 1264 and the rest of the loop.
attemptClaimed(k) ==
  /\ ticks[k].pc = "attempt"
  /\ LET t == ticks[k].snap[ticks[k].i].id IN
     /\ ClaimStatus(Self, t) = OK
     /\ claimTaskTx(Self, t)
     /\ claimSent' = [claimSent EXCEPT ![t] = @ + 1]
     /\ claimedTasks' = claimedTasks \cup {t}
     /\ emitted' = Emit("taskClaimed", t)
     /\ RoundGoto(k, ticks[k].snap,
                  RoundScan(ticks[k].snap, ticks[k].i + 1,
                            Max(lastProcessedTaskId, t),
                            ticks[k].claimsAttempted + 1))
  /\ UNCHANGED <<phase, boot, resultSent, rejected, executorFailed, conflicted,
                 scanFailed>>
  /\ UNCHANGED outsidePoll

\* The break has ended the loop: the callback returns.
roundBreak(k) ==
  /\ ticks[k].pc = "break"
  /\ ticks' = [ticks EXCEPT ![k] = IdleRound]
  /\ UNCHANGED <<phase, boot, lastProcessedTaskId, claimedTasks, claimSent,
                 resultSent, rejected, pollLog>>
  /\ UNCHANGED <<regVars, outsidePoll>>

\* The requester posts a task.
postRound ==
  /\ taskCount < RoundTasks
  /\ submitTaskTx("R", "javascript", "task1", 0)
  /\ UNCHANGED procVars

RoundStep(k) ==
  \/ roundFire(k)
  \/ roundListed(k)
  \/ attemptClaimed(k)
  \/ roundBreak(k)

RoundNext ==
  \/ Boot
  \/ RoundStep(1)
  \/ postRound

\* main() runs on, the interval keeps firing and every await of a callback
\* is answered; the requester posts when it likes.
RoundSpec ==
  RoundInit /\ [][RoundNext]_vars /\ WF_vars(Boot) /\ WF_vars(RoundStep(1))

\* --------------------------------------- requester: waiting for a task
\* _pollForTaskCompletion of deasync-sdk.js.
\* A faulty variant of Settle: a later resolve or reject replaces the outcome.
SettleAgain(state, outcome) == outcome

\* resolve(...) or reject(...): only the first call settles the promise.
Settle(state, outcome) == IF state = "pending" THEN outcome ELSE state

\* JSON.parse(task.result), and the raw string when it throws.
ParsedResult(r) == IF r = "84" THEN 84 ELSE r

\* _pollForTaskCompletion(taskId, timeout) is called for a task the
\* requester has posted: the promise is created and the interval is set.
waitBegin ==
  /\ waitState = "none"
  /\ \E t \in 1 .. taskCount : waitTask' = t
  /\ waitState' = "pending"
  /\ pollTimer' = TRUE
  /\ UNCHANGED <<waitValue, elapsed, polls, settleCalls>>
  /\ UNCHANGED <<regVars, outsideWait>>

\* Time passes the timeout.
timeoutElapses ==
  /\ waitState # "none"
  /\ ~elapsed
  /\ elapsed' = TRUE
  /\ UNCHANGED <<waitTask, waitState, waitValue, pollTimer, polls, settleCalls>>
  /\ UNCHANGED <<regVars, outsideWait>>

\* The interval fires after the timeout: clearInterval, reject, return.
pollTimedOut(k) ==
  /\ pollTimer
  /\ polls[k] = "idle"
  /\ elapsed
  /\ pollTimer' = FALSE
  /\ waitState' = Settle(waitState, "rejected")
  /\ settleCalls' = settleCalls + 1
  /\ UNCHANGED <<waitTask, waitValue, elapsed, polls>>
  /\ UNCHANGED <<regVars, outsideWait>>

\* The interval fires before the timeout: the callback awaits getTask.
pollFire(k) ==
  /\ pollTimer
  /\ polls[k] = "idle"
  /\ ~elapsed
  /\ polls' = [polls EXCEPT ![k] = "reading"]
  /\ UNCHANGED <<waitTask, waitState, waitValue, pollTimer, elapsed, settleCalls>>
  /\ UNCHANGED <<regVars, outsideWait>>

\* getTask answers with the task completed: clearInterval, resolve.
pollCompleted(k) ==
  /\ polls[k] = "reading"
  /\ tasks[waitTask].completed
  /\ pollTimer' = FALSE
  /\ waitState' = Settle(waitState, "resolved")
  /\ waitValue' = IF Settle(waitState, "resolved") = "resolved"
                   THEN ParsedResult(tasks[waitTask].result) ELSE waitValue
  /\ settleCalls' = settleCalls + 1
  /\ polls' = [polls EXCEPT ![k] = "idle"]
  /\ UNCHANGED <<waitTask, elapsed>>
  /\ UNCHANGED <<regVars, outsideWait>>

\* getTask answers with the task not completed: the callback logs.
pollPending(k) ==
  /\ polls[k] = "reading"
  /\ ~tasks[waitTask].completed
  /\ polls' = [polls EXCEPT ![k] = "idle"]
  /\ UNCHANGED <<waitTask, waitState, waitValue, pollTimer, elapsed, settleCalls>>
  /\ UNCHANGED <<regVars, outsideWait>>

\* getTask throws: the catch logs, the promise is left alone.
pollFailed(k) ==
  /\ polls[k] = "reading"
  /\ polls' = [polls EXCEPT ![k] = "idle"]
  /\ UNCHANGED <<waitTask, waitState, waitValue, pollTimer, elapsed, settleCalls>>
  /\ UNCHANGED <<regVars, outsideWait>>

\* A worker completes a task with some result string.
workerSubmits ==
  \E t \in 1 .. taskCount : \E r \in Results : submitResult(Other, t, r)

PollStep(k) ==
  \/ pollTimedOut(k)
  \/ pollFire(k)
  \/ pollCompleted(k)
  \/ pollPending(k)
  \/ pollFailed(k)

WaitNext ==
  \/ postTask
  \/ otherClaims
  \/ workerSubmits
  \/ waitBegin
  \/ timeoutElapses
  \/ \E k \in Polls : PollStep(k)

WaitSpecInit == RegInit /\ NonceIdle /\ TxIdle /\ PollIdle /\ RetryIdle /\ SideIdle

\* Time passes, the interval fires while it is set and every getTask is
\* answered or fails.
WaitSpec ==
  /\ WaitSpecInit /\ [][WaitNext]_vars
  /\ WF_vars(timeoutElapses)
  /\ \A k \in Polls : WF_vars(PollStep(k))

\* ------------------------------------------- worker: the polling timer
\* A faulty variant of AlreadyRunning: startPolling does not look at the flag.
AlreadyRunningIgnored(running) == FALSE

\* if (this.isRunning) { ...; return; }
AlreadyRunning(running) == running

\* startPolling(): no await, the call runs to its end in one step.
startPollingCalled ==
  /\ lifeCalls < MaxLifeCalls
  /\ lifeCalls' = lifeCalls + 1
  /\ IF AlreadyRunning(isRunning)
     THEN /\ lifeLast' = "startNoop"
          /\ UNCHANGED <<isRunning, pollingTimer, timers>>
     ELSE /\ isRunning' = TRUE
          /\ pollingTimer' = lifeCalls + 1
          /\ timers' = timers \cup {lifeCalls + 1}
          /\ lifeLast' = "started"
  /\ UNCHANGED began
  /\ UNCHANGED <<regVars, outsideLife>>

\* stopPolling(): no await either.
stopPolling ==
  /\ lifeCalls < MaxLifeCalls
  /\ lifeCalls' = lifeCalls + 1
  /\ IF ~isRunning
     THEN /\ lifeLast' = "stopNoop"
          /\ UNCHANGED <<isRunning, timers>>
     ELSE /\ isRunning' = FALSE
          /\ timers' = IF pollingTimer # NULL THEN timers \ {pollingTimer}
                                           ELSE timers
          /\ lifeLast' = "stopped"
  /\ UNCHANGED <<pollingTimer, began>>
  /\ UNCHANGED <<regVars, outsideLife>>

\* An interval that is set fires: its callback begins.
timerFires(h) ==
  /\ h \in timers
  /\ began < MaxBegan
  /\ began' = began + 1
  /\ lifeLast' = "tick"
  /\ UNCHANGED <<isRunning, pollingTimer, timers, lifeCalls>>
  /\ UNCHANGED <<regVars, outsideLife>>

LifeNext ==
  \/ startPollingCalled
  \/ stopPolling
  \/ \E h \in 1 .. MaxLifeCalls : timerFires(h)

LifeSpecInit == RegInit /\ NonceIdle /\ TxIdle /\ PollIdle /\ RetryIdle /\ SideIdle

LifeSpec == LifeSpecInit /\ [][LifeNext]_vars

\* ------------------------------------------------------------- claim retry
\* attemptClaimTaskWithRetry and handleClaimError of the TaskClaimer in
\* task-executor.js.  An error message is the set of the tested phrases its
\* lower-cased text includes.
maxRetries == 2                          \* maxRetries = 2
GasPrices == {8, 10}                     \* answers of provider.getGasPrice()

SendErrors ==
  {{"replacement transaction underpriced"}, {"insufficient funds"},
   {"nonce"}, {"nonce", "replacement transaction underpriced"}, {}}

\* The message of the revert the registry answers a claim with.
RevertMessage(status) ==
  IF status = AlreadyClaimed THEN {"already claimed"} ELSE {}

\* handleClaimError: the first test that matches decides.
handleClaimError(message) ==
  IF "higher priority" \in message
     \/ "replacement transaction underpriced" \in message THEN "OUTBID"
  ELSE IF "already claimed" \in message \/ "task not available" \in message
       THEN "ALREADY_CLAIMED"
  ELSE IF "insufficient funds" \in message THEN "INSUFFICIENT_FUNDS"
  ELSE IF "nonce" \in message THEN "NONCE_ERROR"
  ELSE "UNKNOWN"

\* gasPrice = baseGasPrice * (100n + BigInt(20 * attempt)) / 100n
GasBid(base, n) == (base * (100 + 20 * n)) \div 100

\* The catch block: where the operation goes after an error of this type.
AfterError(errorType) ==
  IF errorType \in {"OUTBID", "ALREADY_CLAIMED"} /\ attempt < maxRetries
  THEN "backoff" ELSE "idle"

\* attemptClaimTaskWithRetry(taskId) is called: attempt = 1, await getTask.
retryBegin(t) ==
  /\ rpc = "idle"
  /\ rpc' = "getTask"
  /\ retryTask' = t
  /\ attempt' = 1
  /\ bid' = 0
  /\ bids' = <<>>
  /\ caught' = <<>>
  /\ UNCHANGED <<regVars, claimedTasks, emitted, outsideRetry>>

\* getTask answers: return when the task is claimed or completed, else await
\* getGasPrice.
taskRead ==
  /\ rpc = "getTask"
  /\ rpc' = IF tasks[retryTask].worker # ZeroAddress \/ tasks[retryTask].completed
            THEN "idle" ELSE "gasPrice"
  /\ UNCHANGED <<retryTask, attempt, bid, bids, caught>>
  /\ UNCHANGED <<regVars, claimedTasks, emitted, outsideRetry>>

\* getGasPrice answers: the bid of this attempt.
gasRead(base) ==
  /\ rpc = "gasPrice"
  /\ bid' = GasBid(base, attempt)
  /\ rpc' = "send"
  /\ UNCHANGED <<retryTask, attempt, bids, caught>>
  /\ UNCHANGED <<regVars, claimedTasks, emitted, outsideRetry>>

\* contract.claimTask(taskId, {gasLimit, gasPrice}) returns the transaction.
retrySend ==
  /\ rpc = "send"
  /\ bids' = Append(bids, bid)
  /\ rpc' = "wait"
  /\ UNCHANGED <<retryTask, attempt, bid, caught>>
  /\ UNCHANGED <<regVars, claimedTasks, emitted, outsideRetry>>

\* contract.claimTask throws: the node refuses the transaction.
retrySendThrows(message) ==
  /\ rpc = "send"
  /\ bids' = Append(bids, bid)
  /\ caught' = Append(caught, handleClaimError(message))
  /\ rpc' = AfterError(handleClaimError(message))
  /\ UNCHANGED <<retryTask, attempt, bid>>
  /\ UNCHANGED <<regVars, claimedTasks, emitted, outsideRetry>>

\* The transaction is mined and tx.wait() settles: claimedTasks.set and return
\* on success, the catch block on a revert.
retryMined ==
  /\ rpc = "wait"
  /\ claimTaskTx(Self, retryTask)
  /\ claimedTasks' = IF ClaimStatus(Self, retryTask) = OK
                      THEN claimedTasks \cup {retryTask} ELSE claimedTasks
  /\ emitted' = IF ClaimStatus(Self, retryTask) = OK
                 THEN Emit("taskClaimed", retryTask) ELSE emitted
  /\ caught' = IF ClaimStatus(Self, retryTask) = OK THEN caught
                ELSE Append(caught,
                       handleClaimError(RevertMessage(ClaimStatus(Self, retryTask))))
  /\ rpc' = IF ClaimStatus(Self, retryTask) = OK THEN "idle"
            ELSE AfterError(handleClaimError(RevertMessage(ClaimStatus(Self, retryTask))))
  /\ UNCHANGED <<retryTask, attempt, bid, bids>>
  /\ UNCHANGED outsideRetry

\* The delay of the catch block is over: continue, attempt++.
backoffOver ==
  /\ rpc = "backoff"
  /\ attempt' = attempt + 1
  /\ rpc' = "getTask"
  /\ UNCHANGED <<retryTask, bid, bids, caught>>
  /\ UNCHANGED <<regVars, claimedTasks, emitted, outsideRetry>>

RetryNext ==
  \/ \E t \in 1 .. taskCount : retryBegin(t)
  \/ taskRead
  \/ \E base \in GasPrices : gasRead(base)
  \/ retrySend
  \/ \E message \in SendErrors : retrySendThrows(message)
  \/ retryMined
  \/ backoffOver
  \/ postTask
  \/ otherClaims

RetrySpecInit == RegInit /\ NonceIdle /\ TxIdle /\ PollIdle /\ RetryIdle /\ SideIdle

RetrySpec == RetrySpecInit /\ [][RetryNext]_vars

\* ------------------------------------------------------------- properties
storage == <<taskCount, tasks, balances, funds>>

Min(a, b) == IF a < b THEN a ELSE b

RECURSIVE SumReward(_)
\* The sum of the rewards of the tasks whose ids are in S.
SumReward(S) ==
  IF S = {} THEN 0
  ELSE LET t == CHOOSE x \in S : TRUE IN tasks[t].reward + SumReward(S \ {t})

CompletedBy(a) == {t \in TaskIds : tasks[t].completed /\ tasks[t].worker = a}

\* C1: for every task at most one claimTask call ever succeeds, and once the
\* task's worker is set every later claimTask on it, by any sender (the holder
\* included), fails with "Task already claimed" and changes nothing.
C1_SingleClaim ==
  [][\A t \in TaskIds :
       /\ claimOk'[t] <= 1
       /\ (last'.op = "claimTask" /\ last'.arg = t /\ tasks[t].worker # ZeroAddress)
            => (last'.status = AlreadyClaimed /\ UNCHANGED storage)
       /\ (last'.op = "claimTask" /\ last'.arg = t /\ last'.status = OK)
            => (tasks[t].worker = ZeroAddress /\ tasks'[t].worker = last'.sender)]_vars

\* A second sender's claim on a task another sender holds was rejected.
C1_Witness ==
  /\ last.op = "claimTask" /\ last.status = AlreadyClaimed
  /\ last.arg \in 1 .. taskCount
  /\ claimOk[last.arg] = 1
  /\ tasks[last.arg].worker \in Addr \ {last.sender}

\* C2: a task's mutable fields only move forward: worker is set at most once
\* and never changes afterwards, completed never reverts, and result changes
\* only in the step that sets completed (it is empty before that step).
C2_Monotonic ==
  [][\A t \in TaskIds :
       /\ tasks[t].worker # ZeroAddress => tasks'[t].worker = tasks[t].worker
       /\ tasks[t].completed => tasks'[t].completed
       /\ tasks'[t].result # tasks[t].result
            => (~tasks[t].completed /\ tasks'[t].completed)
       /\ ~tasks'[t].completed => tasks'[t].result = ""]_vars

\* A completed task with a result, on which a further submitResult by its
\* worker was refused.
C2_Witness ==
  /\ last.op = "submitResult" /\ last.status = AlreadyCompleted
  /\ tasks[last.arg].completed /\ tasks[last.arg].result = "84"
  /\ tasks[last.arg].worker = last.sender

\* C3: submitResult succeeds only for the task's assigned worker on a task not
\* yet completed; on a task id in range any other sender gets "Not the assigned
\* worker", the worker's second call gets "Task already completed", and a
\* failing call leaves tasks, balances and funds unchanged.
C3_SubmitGuard ==
  [][last'.op = "submitResult" =>
       LET t == last'.arg
           s == last'.sender IN
       /\ last'.status = OK
            => (t <= taskCount /\ tasks[t].worker = s /\ ~tasks[t].completed)
       /\ (t <= taskCount /\ tasks[t].worker # s)
            => last'.status = NotAssignedWorker
       /\ (t <= taskCount /\ tasks[t].worker = s /\ tasks[t].completed)
            => last'.status = AlreadyCompleted
       /\ last'.status # OK => UNCHANGED <<storage, wallet>>]_vars

\* A sender that is not the worker of a claimed task was refused.
C3_Witness ==
  /\ last.op = "submitResult" /\ last.status = NotAssignedWorker
  /\ last.arg \in 1 .. taskCount
  /\ tasks[last.arg].worker \in Addr \ {last.sender}
  /\ ~tasks[last.arg].completed

\* C4: a successful submitResult adds exactly the task's reward to the
\* sender's balance in the step that sets completed and changes no other
\* balance; a balance grows in no other step.
C4_AtomicCredit ==
  [][/\ (last'.op = "submitResult" /\ last'.status = OK) =>
          LET t == last'.arg
              s == last'.sender IN
          /\ ~tasks[t].completed /\ tasks'[t].completed
          /\ balances'[s] = balances[s] + tasks[t].reward
          /\ \A a \in Addr \ {s} : balances'[a] = balances[a]
     /\ \A a \in Addr :
          balances'[a] > balances[a] =>
            \E t \in TaskIds : /\ ~tasks[t].completed /\ tasks'[t].completed
                               /\ tasks'[t].worker = a
                               /\ balances'[a] - balances[a] = tasks[t].reward
     /\ \A t \in TaskIds :
          (~tasks[t].completed /\ tasks'[t].completed) =>
            balances'[tasks[t].worker] = balances[tasks[t].worker] + tasks[t].reward]_vars

\* A rewarded task was completed and its reward is in the worker's balance.
C4_Witness ==
  /\ last.op = "submitResult" /\ last.status = OK
  /\ tasks[last.arg].reward > 0
  /\ balances[last.sender] >= tasks[last.arg].reward

\* C5: each address's balance is the sum of the rewards of the tasks it
\* completed since its last successful withdrawal; with what it has withdrawn
\* that is the sum over all tasks it completed, and the total credited is the
\* total escrowed for the completed tasks.
C5_BalanceConservation ==
  /\ \A a \in Addr :
       /\ earned[a] \subseteq CompletedBy(a)
       /\ balances[a] = SumReward(earned[a])
       /\ balances[a] + wallet[a] = SumReward(CompletedBy(a))
  /\ credited = SumReward({t \in TaskIds : tasks[t].completed})

\* An address that withdrew and then completed another rewarded task.
C5_Witness ==
  \E a \in Addr : wallet[a] > 0 /\ balances[a] > 0 /\ earned[a] # CompletedBy(a)

\* C6: withdrawBalance with a zero balance fails with "No balance to withdraw"
\* and changes nothing; with balance B > 0 it zeroes that balance, pays exactly
\* B to the sender and leaves every other balance and every task unchanged; a
\* withdrawal right after a successful one by the same sender fails.
C6_Withdraw ==
  [][last'.op = "withdrawBalance" =>
       LET s == last'.sender
           B == balances[s] IN
       /\ B = 0 => (last'.status = NoBalance /\ UNCHANGED <<storage, wallet>>)
       /\ B > 0 => /\ last'.status = OK
                   /\ balances'[s] = 0
                   /\ wallet'[s] = wallet[s] + B
                   /\ funds' = funds - B
                   /\ \A a \in Addr \ {s} :
                        balances'[a] = balances[a] /\ wallet'[a] = wallet[a]
                   /\ UNCHANGED <<taskCount, tasks>>
       /\ (last.op = "withdrawBalance" /\ last.sender = s /\ last.status = OK)
            => last'.status = NoBalance]_vars

\* A sender that was paid out and whose next withdrawal was refused.
C6_Witness ==
  /\ last.op = "withdrawBalance" /\ last.status = NoBalance
  /\ wallet[last.sender] > 0 /\ balances[last.sender] = 0

\* C7: claimTask(taskId) fails with "Invalid task ID" for every taskId outside
\* 1..taskCount, id 0 included.
C7_InvalidIdRejected ==
  (last.op = "claimTask" /\ last.arg \notin 1 .. taskCount)
    => last.status = InvalidTaskId

\* C8: getLatestTasks(k) on n tasks returns exactly min(k, n) tasks, those with
\* ids n-min(k,n)+1 .. n in ascending order, never fails and changes nothing.
C8_LatestWindow ==
  [][last'.op = "getLatestTasks" =>
       LET k == last'.arg
           n == taskCount
           m == Min(k, n) IN
       /\ last'.status = OK
       /\ UNCHANGED <<storage, wallet>>
       /\ Len(last'.ret) = m
       /\ \A j \in 1 .. m : /\ last'.ret[j].id = n - m + j
                            /\ last'.ret[j] = tasks[n - m + j]]_vars

\* A window smaller than the registry: the oldest task is left out.
C8_Witness ==
  /\ last.op = "getLatestTasks"
  /\ last.arg > 0 /\ last.arg < taskCount
  /\ Len(last.ret) = last.arg
  /\ last.ret[1].id = taskCount - last.arg + 1

\* C9: taskCount starts at 0; each submitTask raises it by one and creates the
\* task with that id, unclaimed, not completed, with an empty result and the
\* attached payment as reward; no other call changes taskCount; the existing
\* ids are exactly 1..taskCount, and a task's id, requester, funcType, data and
\* reward never change.
C9_DenseIds ==
  /\ taskCount = 0
  /\ [][/\ last'.op = "submitTask" =>
             /\ taskCount' = taskCount + 1
             /\ last'.arg = taskCount'
             /\ tasks'[taskCount'].id = taskCount'
             /\ tasks'[taskCount'].requester = last'.sender
             /\ tasks'[taskCount'].worker = ZeroAddress
             /\ tasks'[taskCount'].completed = FALSE
             /\ tasks'[taskCount'].result = ""
             /\ tasks'[taskCount'].reward = last'.value
             /\ funds' = funds + last'.value
        /\ taskCount' # taskCount => last'.op = "submitTask"
        /\ {i \in TaskIds : tasks'[i].id # 0} = 1 .. taskCount'
        /\ \A i \in 1 .. taskCount' : tasks'[i].id = i
        /\ \A i \in 1 .. taskCount :
             /\ tasks'[i].id = tasks[i].id
             /\ tasks'[i].requester = tasks[i].requester
             /\ tasks'[i].funcType = tasks[i].funcType
             /\ tasks'[i].data = tasks[i].data
             /\ tasks'[i].reward = tasks[i].reward]_vars

\* A second task was created after the first one was claimed and completed.
C9_Witness ==
  /\ last.op = "submitTask" /\ last.arg = 2 /\ taskCount = 2
  /\ tasks[1].completed /\ tasks[1].reward = 1
  /\ tasks[2].worker = ZeroAddress /\ tasks[2].reward = last.value

\* C10: with no resync, overlapping _getNextNonce calls of one worker return
\* distinct values, strictly increasing in order of return, forming a gap-free
\* run that starts at the counter's seed.
C10_GapFreeRun ==
  /\ \A i \in 1 .. Len(issued) : issued[i] = seed + (i - 1)
  /\ issued # <<>> => nextNonce = seed + Len(issued)

\* A value was handed out while one call holds the lock and another is queued
\* behind it.
C10_Witness ==
  /\ Len(issued) >= 1
  /\ \E f, g \in Flows : /\ f # g
                         /\ flow[f].pc = "awaitLock" /\ ~LockAcquired(f)
                         /\ flow[g].pc # "idle"

\* C11: no nonce value is attached to two transactions the worker submitted,
\* resyncs included (the nonces of its submitted transactions are strictly
\* increasing, so none is used twice).
C11_NoNonceReuse ==
  \A i, j \in 1 .. Len(sent) : i < j => sent[i] # sent[j]

\* C12: resync and allocation exclude each other: while a _refreshNonce is in
\* progress no _getNextNonce reads or increments nextNonce.
C12_ResyncExcludesAllocation ==
  [][(\E f \in Flows : ops[f].pc = "refresh") => issued' = issued]_vars

\* C13: the first value _getNextNonce returns after a resync is at least the
\* transaction count that resync read.
C13_AllocationAfterResync ==
  [][(Len(issued') > Len(issued) /\ resynced # NULL)
       => issued'[Len(issued')] >= resynced]_vars

\* C14: after the node rejects a transaction with a nonce error, the worker
\* sends no transaction until a resync of nextNonce has completed.
C14_ResyncBeforeSend ==
  [][resyncDue => sent' = sent]_vars

\* Terminal for this worker: completed, or claimed by another worker.
Terminal(t) ==
  tasks[t].completed \/ (tasks[t].worker # ZeroAddress /\ tasks[t].worker # Self)

\* C16: the poll loop moves lastProcessedTaskId past a task only when the task
\* is terminal for this worker (claimed by another worker, or completed); a
\* task nobody has claimed after a failed claim attempt is not passed.
C16_AdvanceOnlyPastTerminal ==
  [][phase = "polling" =>
       \A t \in 1 .. MaxTasks :
         (lastProcessedTaskId < t /\ t <= lastProcessedTaskId') => Terminal(t)]_vars

\* C17: lastProcessedTaskId never decreases, never exceeds taskCount, and a
\* claim or result transaction is only sent for a task whose id was above
\* lastProcessedTaskId when the callback inspected it.
C17_HighWaterMark ==
  [][/\ lastProcessedTaskId' >= lastProcessedTaskId
     /\ lastProcessedTaskId' <= taskCount'
     /\ \A k \in Ticks :
          (ticks[k].pc \in {"claim", "submit"}
             /\ ticks'[k].pc \in {"claimWait", "submitWait"})
          => TaskAt(k).id > ticks[k].seenLast]_vars

\* Two callbacks overlap, one has sent a claim and the mark has moved.
C17_Witness ==
  /\ lastProcessedTaskId = MaxTasks
  /\ claimSent[MaxTasks] > 0
  /\ \A k \in Ticks : ticks[k].pc # "idle"

\* C18: the worker sends no claim transaction for a task that the registry
\* already showed claimed or completed when the claim operation was entered
\* (the state a read just before the claim returns).
C18_NoClaimOfTakenTask ==
  [][\A k \in Ticks :
       (ticks[k].pc = "claim" /\ ticks'[k].pc = "claimWait")
       => ~ticks[k].entryClaimed]_vars

\* C19: once a claim for a task came back "Task already claimed", the worker
\* sends no further claim transaction for that task id.
C19_NoClaimAfterRejection ==
  [][\A t \in TaskIds : claimSent'[t] > claimSent[t] => t \notin rejected]_vars

\* C15: a task the registry shows assigned to this worker and not completed
\* is eventually executed and completed, when the timer keeps firing, the
\* executor succeeds and the registry accepts the result.
C15_AssignedEventuallyCompleted ==
  \A t \in 1 .. MaxTasks :
    (tasks[t].worker = Self /\ ~tasks[t].completed) ~> tasks[t].completed

\* The conflicts of the worker's own submission: outbid, superseded (an
\* underpriced replacement) or a stale nonce.
Transient == {"OUTBID", "NONCE_ERROR"}

\* C20: after a transient ordering conflict the claim is retried, each bid of
\* the operation is strictly higher than the one before, at most maxRetries
\* claim transactions are sent, and at the ceiling the task is abandoned.
C20_RetryWithHigherBid ==
  [][/\ (Len(caught') > Len(caught) /\ caught'[Len(caught')] \in Transient)
          => rpc' = IF attempt < maxRetries THEN "backoff" ELSE "idle"
     /\ \A i \in 2 .. Len(bids') : bids'[i] > bids'[i - 1]
     /\ Len(bids') <= maxRetries]_vars

\* C27: poll ticks of one worker never overlap: at most one timer callback is
\* inside checkForAvailableTasks at any time.
C27_TicksNeverOverlap ==
  \A j, k \in Ticks :
    (ticks[j].pc # "idle" /\ ticks[k].pc # "idle") => j = k

\* C28: for every task id the worker has at most one claim transaction in
\* flight (sent, its receipt not yet handled) at any time.
C28_OneClaimInFlight ==
  \A j, k \in Ticks :
    (/\ ticks[j].pc \in {"claimWait", "claimDone"}
     /\ ticks[k].pc \in {"claimWait", "claimDone"}
     /\ TaskAt(j).id = TaskAt(k).id) => j = k

\* C21: once a claim attempt of a tick has found the balance insufficient, the
\* same tick sends no claim transaction for any task.
C21_NoClaimAfterLowBalance ==
  [][\A k \in Ticks :
       (ticks[k].pc = "claim" /\ ticks'[k].pc = "claimWait")
       => ~ticks[k].low]_vars

\* The claim of task t by this worker is mined and its tx.wait() has not yet
\* resumed the callback.
ReceiptDue(t) ==
  \E k \in DOMAIN ticks :
    ticks[k].pc = "claimDone" /\ ticks[k].status = OK /\ TaskAt(k).id = t

C23_CompletedLeavesClaimedTasks ==
  /\ \A t \in TaskIds :
       /\ emitted["taskCompleted"][t] <= 1
       /\ emitted["taskCompleted"][t] > 0 => tasks[t].completed
       /\ emitted["taskCompleted"][t] > 0 => t \notin claimedTasks
  /\ ((\A k \in Ticks : ticks[k].pc = "idle")
        /\ (\A t \in TaskIds : tasks[t].worker = Self => tasks[t].completed))
       => claimedTasks = {}

\* C24: a task whose result submission failed with a nonce conflict stays in
\* claimedTasks and is submitted again on a later tick, so that it eventually
\* becomes completed when the conflict does not recur.
C24_ConflictEventuallyCompleted ==
  \A t \in 1 .. MaxTasks :
    (t \in conflicted /\ ~tasks[t].completed) ~> tasks[t].completed

\* C25: when the executor fails for a claimed task, that run sends no
\* submitResult, the worker keeps polling, the executor is not started again
\* for the task, no result is sent for it later, and the task stays assigned
\* to the worker and not completed in the registry.
C25_ExecutorFailureIsFinal ==
  [][/\ executorFailed' # executorFailed
          => (resultSent' = resultSent /\ phase' = "polling")
     /\ \A t \in executorFailed' :
          /\ tasks'[t].worker = Self /\ ~tasks'[t].completed
          /\ t \in executorFailed => resultSent'[t] = resultSent[t]
     /\ \A k \in DOMAIN ticks :
          (ticks'[k].pc = "execute" /\ ticks[k].pc # "execute")
          => ticks'[k].snap[ticks'[k].i].id \notin executorFailed]_vars

\* A step of callback k in which a call it awaited failed.
Failure(k) ==
  \/ listFailed(k)
  \/ balanceLow(k)
  \/ claimFailed(k)
  \/ executeFailed(k)
  \/ submitConflict(k)
  \/ submitFailed(k)
  \/ (claimReceipt(k) /\ ~Confirmed(ticks[k].status))
  \/ (submitReceipt(k) /\ ~Confirmed(ticks[k].status))

\* C26: a failure inside a tick is caught inside that tick: the worker keeps
\* polling and the other callbacks are untouched; a tick whose registry scan
\* fails leaves lastProcessedTaskId unchanged and returns, so that the next
\* tick scans from the same lastProcessedTaskId.
C26_FailureStaysInsideTick ==
  [][\A k \in Ticks :
       /\ Failure(k)
            => (phase' = "polling"
                /\ \A j \in Ticks \ {k} : ticks'[j] = ticks[j])
       /\ listFailed(k)
            => (lastProcessedTaskId' = lastProcessedTaskId
                /\ claimedTasks' = claimedTasks
                /\ ticks'[k].pc = "idle")]_vars

\* A scan and an executor run have failed, a task is still above the mark,
\* and a later tick has scanned again and is claiming it.
C26_Witness ==
  /\ scanFailed /\ executorFailed # {}
  /\ phase = "polling"
  /\ lastProcessedTaskId < taskCount
  /\ \E k \in Ticks : ticks[k].pc = "claimWait"

\* Callback k returns from checkForAvailableTasks after the loop has awaited
\* at least one call, and no callback is in progress afterwards.
Completes(k) ==
  /\ ticks[k].pc \notin {"idle", "list"}
  /\ \A j \in Ticks : ticks'[j].pc = "idle"

\* A run of the tick body on the present registry reaches the end of its loop
\* without entering attemptClaimTask or executeClaimedTask.
NothingToDo ==
  Scan(LatestTasks(PollWindow), 1, lastProcessedTaskId).pc = "idle"

InitializeReturns == phase = "counted" /\ phase' = "ready"

\* What the constructor leaves and initialize() does not touch.
Fresh ==
  /\ claimedTasks = {}
  /\ pendingTransactions = {}
  /\ issued = <<>> /\ sent = <<>>
  /\ \A f \in Flows : ops[f] = IdleOp /\ flow[f] = IdleFlow

\* C30 as stated: when initialize() has succeeded, nextNonce is the chain's
\* transaction count of the worker, lastProcessedTaskId is the registry's
\* taskCount, and claimedTasks and pendingTransactions are empty.
C30_InitializedFromRegistry ==
  [][InitializeReturns
       => /\ nextNonce' = chainTxCount'
          /\ lastProcessedTaskId' = taskCount'
          /\ claimedTasks' = {} /\ pendingTransactions' = {}]_vars

\* C30 amended: lastProcessedTaskId is the taskCount the registry answered
\* during initialize(), which a task posted since then has left behind; the
\* rest as stated, for a first start and for every restart, until the timer
\* is set.
C30_InitializedFromRegistryReads ==
  /\ [][InitializeReturns
          => /\ nextNonce' = chainTxCount'
             /\ lastProcessedTaskId' = boot
             /\ lastProcessedTaskId' <= taskCount']_vars
  /\ [](phase = "ready"
          => /\ Fresh
             /\ nextNonce # NULL /\ nextNonce <= chainTxCount
             /\ lastProcessedTaskId = boot
             /\ lastProcessedTaskId <= taskCount)

\* The worker has been restarted with a transaction of its earlier run still
\* in flight, and initialize() has succeeded again.
C30_Witness ==
  /\ phase = "ready"
  /\ pending # {}
  /\ nextNonce = chainTxCount /\ chainTxCount > MaxSeed
  /\ lastProcessedTaskId = taskCount /\ taskCount > 0

\* C31: every completed task has an assigned worker and was claimed before
\* (exactly one claimTask succeeded on it); the step that completes a task
\* is a submitResult of that assigned worker, it leaves the worker field as
\* it was and credits the reward to that worker and to nobody else.
C31_CompletedHasWorker ==
  /\ [](\A t \in TaskIds :
          tasks[t].completed
            => (tasks[t].worker \in Addr /\ claimOk[t] = 1))
  /\ [][\A t \in TaskIds :
          (~tasks[t].completed /\ tasks'[t].completed)
            => LET w == tasks[t].worker IN
               /\ w # ZeroAddress /\ claimOk[t] = 1
               /\ tasks'[t].worker = w
               /\ last'.op = "submitResult" /\ last'.sender = w
               /\ t \in earned'[w]
               /\ balances'[w] = balances[w] + tasks[t].reward
               /\ \A a \in Addr \ {w} :
                    balances'[a] = balances[a] /\ earned'[a] = earned[a]]_vars

\* A rewarded task was claimed and completed by one worker, and another
\* sender's submitResult on an unclaimed task was rejected.
C31_Witness ==
  /\ \E t \in 1 .. taskCount :
       /\ tasks[t].completed /\ tasks[t].reward > 0
       /\ t \in earned[tasks[t].worker]
  /\ last.op = "submitResult" /\ last.status = NotAssignedWorker
  /\ last.arg \in 1 .. taskCount
  /\ tasks[last.arg].worker = ZeroAddress

RECURSIVE SumBalances(_)
\* The sum of the accrued balances of the addresses in S.
SumBalances(S) ==
  IF S = {} THEN 0
  ELSE LET a == CHOOSE x \in S : TRUE IN balances[a] + SumBalances(S \ {a})

\* C32: the funds the registry holds equal the rewards of the tasks not yet
\* completed plus all accrued balances, so no balance exceeds the funds and
\* no withdrawBalance ever fails in the transfer.
C32_FundsCoverBalances ==
  /\ funds = SumReward({t \in TaskIds : ~tasks[t].completed}) + SumBalances(Addr)
  /\ \A a \in Addr : balances[a] <= funds
  /\ last.status # TransferFailed

\* A worker was paid its balance in full while the reward of an open task
\* is still held.
C32_Witness ==
  /\ last.op = "withdrawBalance" /\ last.status = OK /\ last.value > 0
  /\ \E t \in 1 .. taskCount : ~tasks[t].completed /\ tasks[t].reward > 0

\* The nonces of the claim and submit operations that sent their transaction
\* and still await its outcome.
InFlight == {ops[f].nonce : f \in {g \in Tracked : ops[g].pc = "waiting"}}

\* C33: every key of pendingTransactions is the nonce of an operation whose
\* transaction was sent and whose outcome is not known yet; once the claim
\* or the submission has finished, confirmed or not, its key is gone.
C33_PendingIsInFlight == pendingTransactions \subseteq InFlight

\* A nonce the chain can still expect: carried by a transaction in flight,
\* or held by an operation that has not sent yet.
Covered(m) ==
  \/ m \in pending
  \/ \E f \in Flows : ops[f].pc = "ready" /\ ops[f].nonce = m

\* C34: a transaction the worker sends is never left behind a gap: every
\* nonce between the chain's count and the nonce it carries is covered, so
\* the chain can come to mine it; a nonce allocated by an operation that
\* failed before sending is resynchronized away before the next allocation.
C34_NoGapAfterFailedSend ==
  [][Len(sent') > Len(sent)
       => \A m \in chainTxCount .. (sent'[Len(sent')] - 1) : Covered(m)']_vars

\* C37: the worker sends submitResult only for a task the registry shows
\* assigned to it, and no result transaction of the worker is mined with
\* the outcome "Not assigned worker".
C37_SubmitsOnlyOwnTasks ==
  /\ [][\A k \in Ticks :
          (ticks[k].pc = "submit" /\ ticks'[k].pc = "submitWait")
            => tasks[TaskAt(k).id].worker = Self]_vars
  /\ [](\A k \in Ticks :
          ticks[k].pc = "submitDone" => ticks[k].status # NotAssignedWorker)

\* A result transaction of the worker was mined while the competing worker
\* holds the other task.
C37_Witness ==
  /\ \E k \in Ticks : ticks[k].pc = "submitDone"
  /\ \E t \in 1 .. taskCount : tasks[t].worker = Other

\* C36: the worker sends at most one submitResult transaction per task id
\* (each one follows a run of the executor for that task), whatever the
\* interleaving of overlapping callbacks and confirmations.
C36_OneSubmissionPerTask == \A t \in TaskIds : resultSent[t] <= 1

\* C38: at most one interval is set at a time; isRunning is true exactly
\* when one is set, and it is the one pollingTimer names; startPolling while
\* running and stopPolling while stopped change nothing; a callback begins
\* only while the worker is running.
C38_OneTimer ==
  /\ [](/\ Cardinality(timers) <= 1
        /\ isRunning <=> timers # {}
        /\ isRunning => timers = {pollingTimer})
  /\ [][/\ (lifeCalls' > lifeCalls /\ lifeLast' \in {"started", "startNoop"}
              /\ isRunning)
           => (timers' = timers /\ isRunning' /\ lifeLast' = "startNoop")
        /\ (lifeCalls' > lifeCalls /\ lifeLast' \in {"stopped", "stopNoop"}
              /\ ~isRunning)
           => (timers' = timers /\ ~isRunning' /\ lifeLast' = "stopNoop")
        /\ began' > began => isRunning]_vars

\* The worker was started, a callback began, it was stopped and started
\* again, and startPolling was called once more while it was running.
C38_Witness ==
  /\ lifeCalls = 4 /\ lifeLast = "startNoop"
  /\ began > 0
  /\ isRunning /\ pollingTimer = 3 /\ timers = {3}

\* The task is in the list a callback in progress got from getLatestTasks.
InSnapshot(t) ==
  \E k \in DOMAIN ticks :
    \E j \in 1 .. Len(ticks[k].snap) : ticks[k].snap[j].id = t

\* C35: every task created after initialize() read taskCount comes to be in
\* the list of some callback of the running worker, however many tasks are
\* created between two callbacks.
C35_EveryTaskInspected ==
  \A t \in 1 .. WindowTasks :
    <>(boot # NULL /\ boot < t /\ t <= taskCount) => <>InSnapshot(t)

\* The ceiling has ended a round and task t, still unclaimed, is among the
\* items the loop did not reach.
LeftOver(t) ==
  \E k \in DOMAIN ticks :
    /\ ticks[k].pc = "break"
    /\ \E j \in ticks[k].i .. Len(ticks[k].snap) : ticks[k].snap[j].id = t
    /\ tasks[t].worker = ZeroAddress

\* C39: a round makes at most maxClaimsPerRound claim attempts; a task the
\* ceiling left unprocessed stays above lastProcessedTaskId, and it is
\* attempted in a later round unless somebody has claimed it.
C39_LeftOverIsAttempted ==
  /\ [](\A k \in DOMAIN ticks :
          ticks[k].pc # "idle" => ticks[k].claimsAttempted <= maxClaimsPerRound)
  /\ [](\A t \in 1 .. RoundTasks : LeftOver(t) => lastProcessedTaskId < t)
  /\ \A t \in 1 .. RoundTasks :
       LeftOver(t) ~> (claimSent[t] > 0 \/ tasks[t].worker # ZeroAddress)

====
